---- MODULE Spec2Model ----
(***************************************************************************)
(* ESP32-CAM streaming firmware: the frame acquisition and multi-protocol  *)
(* streaming pipeline (chunked multipart HTTP, RTSP/RTP, fragmented UDP,   *)
(* WebSocket signaling) and the control decoders.                          *)
(*                                                                         *)
(* Text is modelled as sequences of character codes, so that formatting    *)
(* (snprintf) and parsing (toInt, indexOf) are computed, not assumed.      *)
(* One build of the firmware holds one video adapter and one control       *)
(* decoder; each has its own specification below.                          *)
(***************************************************************************)
EXTENDS Integers, Sequences, FiniteSets, TLC

VARIABLES
    videoProtocol,  \* the video adapter this build holds (VIDEO_PROTOCOL)
    ctx,            \* the execution context that ran the last step of the program
    \* FrameSource (camera driver)
    nextFrame,      \* number of frames the driver has handed out so far
    held,           \* ids of the frames checked out and not yet returned
    retCount,       \* frame id -> number of esp_camera_fb_return calls on it
    camTrace,       \* camera calls made by the last step, in order
    slept,          \* vTaskDelay durations (ms) of the last step, in order
    \* chunked HTTP callback statics (src/src/video_http.h)
    fb, offset, needHeader, failCount, headerBuf, headerLen, headerSent,
    httpRet,        \* bytes the last call wrote to the buffer (its return value is their number)
    httpMaxLen,     \* maxLen of the last call
    httpFrame,      \* the frame acquired most recently by the callback
    httpSent,       \* bytes returned since that frame was acquired
    failRun,        \* acquire failures in a row, counted anew after a success or a cooldown
    cooled,         \* the last failed acquire ended with the cooldown
    httpConn,       \* clients with an open /video response
    httpTo,         \* the client whose response the last call filled (0: none yet)
    httpGot,        \* connected clients whose response has been given bytes
    \* UDP adapter (firmware/src/video_udp.h)
    frameCounter,
    udpSent,        \* datagrams written by the last pump step, in send order
    udpFrames,      \* frameNumber carried by each frame sent so far, in order
    \* RTSP adapter (firmware/src/video_rtsp.h)
    clientConnected, sessionId, sequenceNumber, timestamp,
    localIP,        \* WiFi.localIP().toString()
    rtspPending,    \* a TCP client waits in server.available()
    rtspRx,         \* lines received from the client and not yet read
    rtspResp,       \* RTSP responses printed by the last step, in order
    rtpSent,        \* RTP packets written by the last step, in order
    rtspSock,       \* the WiFiClient `client`: "none", "open" or "stopped"
    rtspTx,         \* lines of the client's current request it has yet to send
    rtpPrev,        \* the RTP stream of this session before the last step (see RtpSeen)
    cseqRead,       \* the integer of the last CSeq header handle() read from this client (-1: none)
    \* WebSocket signaling adapter (firmware/src/video_webrtc.h)
    webrtcState, currentClient,
    wsClients,      \* client numbers with an open WebSocket
    wsEvents,       \* events waiting for webRTC.loop()
    wsOut,          \* messages sent by the last step, in order
    \* control decoders (firmware/src/ctrl_*.h)
    ctrlProto, currentControl,
    ctrlAcks,       \* acknowledgments sent by the last step
    ledPin,         \* level last written to the LED pin
    \* re-registering HTTP adapter (firmware/src/video_http.h)
    fwHandlers,     \* frames whose pointer a registered /video handler has captured
    fwRead,         \* the frame the last /video handler run read through its pointer
    \* setup() (firmware/src/main.cpp)
    setupPc,        \* where setup() is: "initCamera", "wifi", "create" or "returned"
    videoTaskHandle, controlTaskHandle   \* "NULL" or "created"

camVars   == <<nextFrame, held, retCount, camTrace, slept>>
httpVars  == <<fb, offset, needHeader, failCount, headerBuf, headerLen, headerSent,
               httpRet, httpMaxLen, httpFrame, httpSent, failRun, cooled,
               httpConn, httpTo, httpGot>>
udpVars   == <<frameCounter, udpSent, udpFrames>>
rtspVars  == <<clientConnected, sessionId, sequenceNumber, timestamp, localIP,
               rtspPending, rtspRx, rtspResp, rtpSent, rtspSock, rtspTx, rtpPrev,
               cseqRead>>
wsVars    == <<webrtcState, currentClient, wsClients, wsEvents, wsOut>>
ctrlVars  == <<ctrlProto, currentControl, ctrlAcks, ledPin>>
fwVars    == <<fwHandlers, fwRead>>
bootVars  == <<setupPc, videoTaskHandle, controlTaskHandle>>
vars      == <<videoProtocol, ctx, camVars, httpVars, udpVars, rtspVars, wsVars, ctrlVars,
               fwVars, bootVars>>

----------------------------------------------------------------------------
(* Bounds of the model *)

MaxFrames == 3      \* frames the camera hands out in one run
MaxChunk  == 3      \* small buffer offers 0..MaxChunk (plus one large offer)
BigChunk  == 1436   \* a buffer offer that holds a whole header and frame

(* Program constants *)

HeaderBufSize == 128    \* static char headerBuf[128]
FailLimit     == 5      \* if (failCount > 5)
CooldownMs    == 100    \* vTaskDelay(pdMS_TO_TICKS(100))

----------------------------------------------------------------------------
(* Text helpers *)

Min(a, b) == IF a < b THEN a ELSE b

RECURSIVE FmtU(_)
\* printf %u / %d of a non-negative value: its decimal digits
FmtU(n) == IF n < 10 THEN <<48 + n>> ELSE FmtU(n \div 10) \o <<48 + (n % 10)>>

\* snprintf(buf, size, ...) of the formatted text s: the return value is the length
\* of the whole text, the buffer holds at most size-1 characters of it
Snprintf(size, s) == [n |-> Len(s), buf |-> SubSeq(s, 1, Min(Len(s), size - 1))]

IsPrefix(s, t) == Len(s) <= Len(t) /\ SubSeq(t, 1, Len(s)) = s

\* String::indexOf(pat): 0-based place of the first occurrence of pat in s, or -1
RECURSIVE IndexFrom(_, _, _)
IndexFrom(s, pat, i) ==
    IF i + Len(pat) > Len(s) THEN -1
    ELSE IF SubSeq(s, i + 1, i + Len(pat)) = pat THEN i
    ELSE IndexFrom(s, pat, i + 1)

IndexOf(s, pat) == IndexFrom(s, pat, 0)

\* String::substring(from): the characters from 0-based place `from` on
Substring(s, from) == SubSeq(s, from + 1, Len(s))

IsSpace(c) == c \in {32, 9, 10, 11, 12, 13}
IsDigit(c) == c \in 48..57

RECURSIVE SkipSpace(_)
SkipSpace(s) == IF s # <<>> /\ IsSpace(s[1]) THEN SkipSpace(Tail(s)) ELSE s

RECURSIVE Digits(_, _)
\* value of the leading decimal digits of s, continuing from acc
Digits(s, acc) ==
    IF s # <<>> /\ IsDigit(s[1]) THEN Digits(Tail(s), acc * 10 + (s[1] - 48)) ELSE acc

\* String::toInt (atol): leading white space, an optional sign, then digits; 0 if none
ToInt(s) ==
    LET t == SkipSpace(s) IN
    IF t # <<>> /\ t[1] = 45 THEN 0 - Digits(Tail(t), 0)
    ELSE IF t # <<>> /\ t[1] = 43 THEN Digits(Tail(t), 0)
    ELSE Digits(t, 0)

\* fixed-width unsigned arithmetic. TLC integers end at 2^31 - 1, below the
\* uint32_t wrap at 2^32, so a 32-bit value is exact wherever it can be evaluated;
\* the 32-bit counters start at 0 and stay far below it within the bounds.
U16(x) == x % 65536
U32(x) == x

\* vTaskDelay(pdMS_TO_TICKS(n)) and vTaskDelay(n)
DelayMs(n)    == [unit |-> "ms", n |-> n]
DelayTicks(n) == [unit |-> "ticks", n |-> n]

----------------------------------------------------------------------------
(* FrameSource: esp_camera_fb_get / esp_camera_fb_return *)

NoFrame == [id |-> 0, len |-> 0]     \* nullptr

\* fb->buf[i], 0-based: the bytes of frame id
FrameByte(id, i) == (id * 37 + i * 11) % 256

\* variant: the copy starts one byte late
FrameBytesLate(f, from, n) == [k \in 1..n |-> FrameByte(f.id, from + k)]

\* fb->buf[from .. from+n-1]
FrameBytes(f, from, n) == [k \in 1..n |-> FrameByte(f.id, from + k - 1)]

CamGet(f)    == [op |-> "get", id |-> f.id, len |-> f.len]
CamReturn(f) == [op |-> "return", id |-> f.id, len |-> f.len]

\* what esp_camera_fb_get may return: NULL, or (for the first `cap` frames) the
\* next frame with one of `lens` bytes
Acquirable(lens, cap) ==
    {NoFrame} \cup (IF nextFrame < cap
                    THEN {[id |-> nextFrame + 1, len |-> L] : L \in lens}
                    ELSE {})

\* effect of the camera calls `trace` of one step on the driver's bookkeeping
CamStep(trace) ==
    LET gets == {trace[i].id : i \in {j \in DOMAIN trace : trace[j].op = "get"}} \ {0}
        rets(id) == Cardinality({i \in DOMAIN trace :
                                   trace[i].op = "return" /\ trace[i].id = id})
    IN /\ camTrace' = trace
       /\ nextFrame' = nextFrame + Cardinality(gets)
       /\ held' = {id \in held \cup gets : rets(id) = 0}
       /\ retCount' = [id \in DOMAIN retCount |-> retCount[id] + rets(id)]

CamInit ==
    /\ nextFrame = 0
    /\ held = {}
    /\ retCount = [id \in 1..MaxFrames |-> 0]
    /\ camTrace = <<>>
    /\ slept = <<>>

----------------------------------------------------------------------------
(* Chunked multipart HTTP callback: src/src/video_http.h *)

BOUNDARY == <<49, 50, 51, 52, 53, 54, 55, 56, 57, 48, 48, 48, 48, 48, 48,
              48, 48, 48, 48, 48, 48, 57, 56, 55, 54, 53, 52, 51, 50, 49>>

\* "\r\n--%s\r\n" "Content-Type: image/jpeg\r\n" "Content-Length: %u\r\n\r\n"
HttpHeaderText(len) ==
    <<13, 10, 45, 45>> \o BOUNDARY \o <<13, 10>>
    \o <<67, 111, 110, 116, 101, 110, 116, 45, 84, 121, 112, 101, 58, 32,
         105, 109, 97, 103, 101, 47, 106, 112, 101, 103, 13, 10>>
    \o <<67, 111, 110, 116, 101, 110, 116, 45, 76, 101, 110, 103, 116, 104, 58, 32>>
    \o FmtU(len) \o <<13, 10, 13, 10>>

HttpFrameLens == {1, 3, 10, 12, 100}
ChunkSizes    == (0..MaxChunk) \cup {BigChunk}

\* variant: the cooldown is taken when the count reaches the limit
FailStepAtLimit(fc) ==
    IF fc + 1 >= FailLimit THEN [failCount |-> 0, slept |-> <<DelayMs(CooldownMs)>>]
                           ELSE [failCount |-> fc + 1, slept |-> <<>>]

\* variant: a failed acquire is not counted
FailStepNoCount(fc) == [failCount |-> fc, slept |-> <<>>]

\* failCount++; if (failCount > 5) { vTaskDelay(100); failCount = 0; }
FailStep(fc) ==
    IF fc + 1 > FailLimit THEN [failCount |-> 0, slept |-> <<DelayMs(CooldownMs)>>]
                          ELSE [failCount |-> fc + 1, slept |-> <<>>]

\* variant: all that remains is copied, whatever the buffer holds
ChunkSizeWhole(remain, maxLen) == remain

\* (remain < maxLen) ? remain : maxLen
ChunkSize(remain, maxLen) == IF remain < maxLen THEN remain ELSE maxLen

\* variant: the header is taken as sent one byte early
HeaderDoneEarly(sent, len) == sent + 1 >= len

\* if (headerSent >= headerLen) needHeader = false
HeaderDone(sent, len) == sent >= len

\* variant: the frame is given back one byte early
FrameDoneEarly(off, len) == off + 1 >= len

\* if (offset >= fb->len) { esp_camera_fb_return(fb); fb = nullptr; }
FrameDone(off, len) == off >= len

\* no handler has been registered by a pump and none has run
NoRead == [id |-> 0, len |-> 0, released |-> FALSE]
FwHttpAbsent == fwHandlers = {} /\ fwRead = NoRead

HttpInit ==
    /\ fb = NoFrame /\ offset = 0 /\ needHeader = TRUE /\ failCount = 0
    /\ headerBuf = <<>> /\ headerLen = 0 /\ headerSent = 0
    /\ httpRet = <<>> /\ httpMaxLen = 0 /\ httpFrame = NoFrame /\ httpSent = <<>>
    /\ failRun = 0 /\ cooled = FALSE
    /\ httpTo = 0 /\ httpGot = {}

\* variant: the callback acquires on every call
NeedsFrameAlways(f) == TRUE

\* if (!fb): the callback acquires only when it holds no frame
NeedsFrame(f) == f = NoFrame

\* one call of the chunked response callback with buffer size maxLen; `got` is
\* what esp_camera_fb_get returns if the call reaches it
VideoChunk(maxLen, got) ==
    LET acquire == NeedsFrame(fb) IN
    /\ httpMaxLen' = maxLen
    /\ IF acquire /\ got = NoFrame
       THEN \* capture failed: count it, cool down past the limit, return 0
            /\ failCount' = FailStep(failCount).failCount
            /\ slept' = FailStep(failCount).slept
            /\ httpRet' = <<>>
            /\ failRun' = IF cooled THEN 1 ELSE failRun + 1
            /\ cooled' = (FailStep(failCount).slept # <<>>)
            /\ CamStep(<<CamGet(NoFrame)>>)
            /\ UNCHANGED <<fb, offset, needHeader, headerBuf, headerLen, headerSent,
                           httpFrame, httpSent>>
       ELSE
         LET fb1         == IF acquire THEN got ELSE fb
             offset1     == IF acquire THEN 0 ELSE offset
             needHeader1 == IF acquire THEN TRUE ELSE needHeader
             headerSent1 == IF acquire THEN 0 ELSE headerSent
             headerLen1  == IF acquire THEN 0 ELSE headerLen
             sent1       == IF acquire THEN <<>> ELSE httpSent
             gets        == IF acquire THEN <<CamGet(got)>> ELSE <<>>
         IN
         /\ failCount' = IF acquire THEN 0 ELSE failCount
         /\ httpFrame' = fb1
         /\ failRun' = IF acquire THEN 0 ELSE failRun
         /\ cooled' = IF acquire THEN FALSE ELSE cooled
         /\ slept' = <<>>
         /\ IF needHeader1
            THEN
              LET fmt == IF headerLen1 = 0
                         THEN Snprintf(HeaderBufSize, HttpHeaderText(fb1.len))
                         ELSE [n |-> headerLen1, buf |-> headerBuf]
              IN
              IF headerLen1 = 0 /\ fmt.n >= HeaderBufSize
              THEN \* header does not fit: release the frame, return 0
                   /\ fb' = NoFrame
                   /\ headerLen' = fmt.n /\ headerBuf' = fmt.buf
                   /\ offset' = offset1 /\ needHeader' = needHeader1
                   /\ headerSent' = headerSent1
                   /\ httpRet' = <<>> /\ httpSent' = sent1
                   /\ CamStep(gets \o <<CamReturn(fb1)>>)
              ELSE
                LET remainHeader == fmt.n - headerSent1
                    chunkSize    == ChunkSize(remainHeader, maxLen)
                    bytes        == SubSeq(fmt.buf, headerSent1 + 1, headerSent1 + chunkSize)
                IN
                /\ fb' = fb1
                /\ headerLen' = fmt.n /\ headerBuf' = fmt.buf
                /\ headerSent' = headerSent1 + chunkSize
                /\ needHeader' = ~HeaderDone(headerSent1 + chunkSize, fmt.n)
                /\ offset' = offset1
                /\ httpRet' = bytes /\ httpSent' = sent1 \o bytes
                /\ CamStep(gets)
            ELSE
              LET remain == fb1.len - offset1 IN
              /\ UNCHANGED <<headerBuf>>
              /\ headerLen' = headerLen1 /\ headerSent' = headerSent1
              /\ needHeader' = needHeader1
              /\ IF remain = 0
                 THEN \* nothing left of the frame: release it, return 0
                      /\ fb' = NoFrame /\ offset' = offset1
                      /\ httpRet' = <<>> /\ httpSent' = sent1
                      /\ CamStep(gets \o <<CamReturn(fb1)>>)
                 ELSE
                   LET toSend == ChunkSize(remain, maxLen)
                       bytes  == FrameBytes(fb1, offset1, toSend)
                   IN
                   /\ offset' = offset1 + toSend
                   /\ httpRet' = bytes /\ httpSent' = sent1 \o bytes
                   /\ IF FrameDone(offset1 + toSend, fb1.len)
                      THEN fb' = NoFrame /\ CamStep(gets \o <<CamReturn(fb1)>>)
                      ELSE fb' = fb1 /\ CamStep(gets)

\* the web server asks the callback for the next bytes of the response of a
\* connected client (the statics are shared by all responses)
HttpServe(chunks, lens) ==
    /\ videoProtocol = "HTTP"
    /\ \E c \in httpConn :
       \E maxLen \in chunks :
       \E got \in (IF NeedsFrame(fb) THEN Acquirable(lens, MaxFrames)
                                     ELSE {NoFrame}) :
          /\ VideoChunk(maxLen, got)
          /\ httpTo' = c
          /\ httpGot' = IF httpRet' # <<>> THEN httpGot \cup {c} ELSE httpGot
    /\ ctx' = "async_tcp"
    /\ UNCHANGED <<videoProtocol, httpConn, udpVars, rtspVars, wsVars, ctrlVars, fwVars, bootVars>>

\* one stream, fine-grained buffer offers
HttpCall == HttpServe(ChunkSizes, HttpFrameLens)

\* one stream whose buffer offers and frames include the empty ones
EdgeChunkSizes == {0, 1, BigChunk}
EdgeFrameLens  == {0, 3}
HttpEdgeCall == HttpServe(EdgeChunkSizes, EdgeFrameLens)

HttpClients      == {1, 2}
ServerChunkSizes == {0, 50, BigChunk}
ServerFrameLens  == {3, 100}

\* several streams, coarse buffer offers
HttpServerCall == HttpServe(ServerChunkSizes, ServerFrameLens)

HTTP_FRAME_INTERVAL_MS == 100

\* GET /video: the handler creates a chunked response around the callback
HttpConnects ==
    /\ videoProtocol = "HTTP"
    /\ \E c \in HttpClients \ httpConn : httpConn' = httpConn \cup {c}
    /\ UNCHANGED <<videoProtocol, ctx, camVars, udpVars, rtspVars, wsVars, ctrlVars, fwVars, bootVars>>
    /\ UNCHANGED <<fb, offset, needHeader, failCount, headerBuf, headerLen, headerSent,
                   httpRet, httpMaxLen, httpFrame, httpSent, failRun, cooled, httpTo,
                   httpGot>>

\* a client closes its connection or stops reading for good: its response is
\* dropped by the server; no code of the adapter runs
HttpDisconnects ==
    /\ videoProtocol = "HTTP"
    /\ \E c \in httpConn :
          /\ httpConn' = httpConn \ {c}
          /\ httpGot' = httpGot \ {c}
    /\ UNCHANGED <<videoProtocol, ctx, camVars, udpVars, rtspVars, wsVars, ctrlVars, fwVars, bootVars>>
    /\ UNCHANGED <<fb, offset, needHeader, failCount, headerBuf, headerLen, headerSent,
                   httpRet, httpMaxLen, httpFrame, httpSent, failRun, cooled, httpTo>>

\* handleVideoHTTP, as one iteration of loop() (src/src/main.cpp)
HandleVideoHTTP ==
    /\ videoProtocol = "HTTP"
    /\ ctx' = "video"
    /\ camTrace' = <<>>
    /\ slept' = <<DelayMs(HTTP_FRAME_INTERVAL_MS)>>
    /\ UNCHANGED <<videoProtocol, nextFrame, held, retCount, httpVars, udpVars,
                   rtspVars, wsVars, ctrlVars, fwVars, bootVars>>

----------------------------------------------------------------------------
(* Scheduler: firmware/src/main.cpp *)

\* variant: the loop goes round without yielding
TaskIterationNoYield(stepSleeps) == stepSleeps

\* one iteration of videoTask / controlTask: the pump step, then vTaskDelay(1)
TaskIteration(stepSleeps) == stepSleeps \o <<DelayTicks(1)>>

----------------------------------------------------------------------------
(* UDP adapter: firmware/src/video_udp.h *)

UDP_MAX_PACKET_SIZE == 1400
FRAME_INTERVAL_MS   == 33

MaxPackets == 3     \* frames span up to MaxPackets fragments

\* lengths around every multiple of the fragment size
FrameLens ==
    {L \in UNION {{k * 1400 + 1, k * 1400 + 200, k * 1400 + 1399, k * 1400 + 1400}
                  : k \in 0..(MaxPackets - 1)} : L <= MaxPackets * 1400}

\* uint16_t totalPackets = (fb->len + UDP_MAX_PACKET_SIZE - 1) / UDP_MAX_PACKET_SIZE
TotalPackets(len) == U16((len + UDP_MAX_PACKET_SIZE - 1) \div UDP_MAX_PACKET_SIZE)

\* variant: the last fragment's size taken as the remainder of the division
PayloadSizeRemainder(i, totalPackets, len) ==
    U16(IF i = totalPackets - 1 THEN len % UDP_MAX_PACKET_SIZE
                                ELSE UDP_MAX_PACKET_SIZE)

\* uint16_t payloadSize = (i == totalPackets - 1) ? (fb->len - i * 1400) : 1400
PayloadSize(i, totalPackets, len) ==
    U16(IF i = totalPackets - 1 THEN len - i * UDP_MAX_PACKET_SIZE
                                ELSE UDP_MAX_PACKET_SIZE)

\* variant: the counter is used before it is incremented
NextFrameNumberStale(counter) == counter

\* frameCounter++
NextFrameNumber(counter) == U32(counter + 1)

\* the datagram of loop index i: UDPVideoHeader, then payloadSize bytes of the
\* frame starting at fb->buf + i * 1400 (kept as the source range)
Datagram(counter, f, i) ==
    [frameNumber  |-> counter,
     packetNumber |-> i,
     totalPackets |-> TotalPackets(f.len),
     frameSize    |-> U32(f.len),
     payloadSize  |-> PayloadSize(i, TotalPackets(f.len), f.len),
     from         |-> i * UDP_MAX_PACKET_SIZE]

\* sendFrameUDP: the datagrams of one frame, in send order
SendFrameUDP(counter, f) ==
    [i \in 1..TotalPackets(f.len) |-> Datagram(NextFrameNumber(counter), f, i - 1)]

\* the camera calls of handleVideoUDP: get; on success, after the send, return
UdpCamCalls(got) ==
    IF got = NoFrame THEN <<CamGet(NoFrame)>> ELSE <<CamGet(got), CamReturn(got)>>

UdpInit ==
    /\ frameCounter = 0
    /\ udpSent = <<>>
    /\ udpFrames = <<>>

\* variant: a failed capture does not return to videoTask
HandleVideoUDPFatal(got) ==
    /\ got # NoFrame
    /\ LET sent == SendFrameUDP(frameCounter, got) IN
         /\ frameCounter' = NextFrameNumber(frameCounter)
         /\ udpSent' = sent
         /\ udpFrames' = IF sent = <<>> THEN udpFrames
                         ELSE Append(udpFrames, [frameNumber |-> sent[1].frameNumber,
                                                 frameSize   |-> sent[1].frameSize])
         /\ CamStep(UdpCamCalls(got))
         /\ slept' = TaskIteration(<<DelayMs(FRAME_INTERVAL_MS)>>)

\* handleVideoUDP, as one iteration of videoTask
HandleVideoUDP(got) ==
    IF got = NoFrame
    THEN /\ CamStep(UdpCamCalls(got))
         /\ slept' = TaskIteration(<<>>)
         /\ udpSent' = <<>>
         /\ UNCHANGED <<frameCounter, udpFrames>>
    ELSE LET sent == SendFrameUDP(frameCounter, got) IN
         /\ frameCounter' = NextFrameNumber(frameCounter)
         /\ udpSent' = sent
         /\ udpFrames' = IF sent = <<>> THEN udpFrames
                         ELSE Append(udpFrames, [frameNumber |-> sent[1].frameNumber,
                                                 frameSize   |-> sent[1].frameSize])
         /\ CamStep(UdpCamCalls(got))
         /\ slept' = TaskIteration(<<DelayMs(FRAME_INTERVAL_MS)>>)

UdpPump ==
    /\ videoProtocol = "UDP"
    /\ \E got \in Acquirable(FrameLens, MaxFrames) : HandleVideoUDP(got)
    /\ ctx' = "video"
    /\ UNCHANGED <<videoProtocol, httpVars, rtspVars, wsVars, ctrlVars, fwVars, bootVars>>

----------------------------------------------------------------------------
(* Re-registering HTTP adapter: firmware/src/video_http.h *)

FwFrameLens == {1, 100, 1401}

\* handleVideoHTTP, as one iteration of videoTask: capture, format the part
\* header, register a /video handler that holds the frame pointer (and a copy of
\* the header buffer), return the frame, wait the frame interval
FwHandleVideoHTTP(got) ==
    IF got = NoFrame
    THEN /\ CamStep(<<CamGet(NoFrame)>>)
         /\ slept' = TaskIteration(<<>>)
         /\ UNCHANGED fwHandlers
    ELSE /\ fwHandlers' = fwHandlers \cup {got}
         /\ CamStep(<<CamGet(got), CamReturn(got)>>)
         /\ slept' = TaskIteration(<<DelayMs(FRAME_INTERVAL_MS)>>)

FwHttpPump ==
    /\ videoProtocol = "HTTP_firmware"
    /\ \E got \in Acquirable(FwFrameLens, MaxFrames) : FwHandleVideoHTTP(got)
    /\ fwRead' = NoRead
    /\ ctx' = "video"
    /\ UNCHANGED <<videoProtocol, httpVars, udpVars, rtspVars, wsVars, ctrlVars, bootVars>>

\* GET /video arrives in the web server's context and the server runs one of
\* the handlers registered for it: the one initVideoHTTP registered, which reads
\* no frame, or one a pump iteration registered, which reads fb->buf and fb->len
\* through the pointer it captured
FwVideoRequest ==
    /\ videoProtocol = "HTTP_firmware"
    /\ \E h \in fwHandlers \cup {NoFrame} :
          fwRead' = IF h = NoFrame THEN NoRead
                    ELSE [id |-> h.id, len |-> h.len, released |-> h.id \notin held]
    /\ ctx' = "async_tcp"
    /\ camTrace' = <<>> /\ slept' = <<>>
    /\ UNCHANGED <<videoProtocol, nextFrame, held, retCount, fwHandlers,
                   httpVars, udpVars, rtspVars, wsVars, ctrlVars, bootVars>>

----------------------------------------------------------------------------
(* RTSP adapter: firmware/src/video_rtsp.h *)

RTSP_PORT    == 8554
RtpClockRate == 90000
RtpFrameRate == 30
RtpMaxPacket == 1400
RtpSsrc      == 305419896     \* 0x12345678
RespBufSize  == 256           \* char response[256]
SdpBufSize   == 512           \* char sdp[512]
DescBufSize  == 768           \* char response[768]

MaxRx         == 2      \* lines the client may have in flight, unread by handle()
MaxRtspFrames == 2      \* frames the camera hands out to the RTSP pump in one run

RtspFrameLens == {200, 1401}
CSeqValues    == {2, 65535}

\* build-time/start-up values: random(1000000) and the address the network gave
RtspIdentities ==
    {[sessionId |-> 0,      ip |-> <<48, 46, 48, 46, 48, 46, 48>>],
     [sessionId |-> 999999, ip |-> <<49, 57, 50, 46, 49, 54, 56, 46, 49, 48, 48, 46,
                                     50, 48, 48>>]}

S_OPTIONS  == <<79, 80, 84, 73, 79, 78, 83>>
S_DESCRIBE == <<68, 69, 83, 67, 82, 73, 66, 69>>
S_SETUP    == <<83, 69, 84, 85, 80>>
S_PLAY     == <<80, 76, 65, 89>>
S_TEARDOWN == <<84, 69, 65, 82, 68, 79, 87, 78>>
S_PAUSE    == <<80, 65, 85, 83, 69>>
S_CSeq     == <<67, 83, 101, 113>>
S_StatusOK == <<82, 84, 83, 80, 47, 49, 46, 48, 32, 50, 48, 48, 32, 79, 75, 13, 10>>
S_CSeqHdr  == <<67, 83, 101, 113, 58, 32>>
S_Session  == <<83, 101, 115, 115, 105, 111, 110, 58, 32>>
S_CRLF     == <<13, 10>>
S_ContentLength == <<67, 111, 110, 116, 101, 110, 116, 45, 76, 101, 110, 103, 116, 104, 58, 32>>

ClientVerbs == {S_OPTIONS, S_DESCRIBE, S_SETUP, S_PLAY, S_TEARDOWN, S_PAUSE}

\* a request as a client writes it: "<VERB> rtsp://cam/ RTSP/1.0\r\n" "CSeq: n\r\n" "\r\n",
\* as the lines readStringUntil('\n') yields (the '\r' stays on each line)
RequestLines(verb, n) ==
    << verb \o <<32, 114, 116, 115, 112, 58, 47, 47, 99, 97, 109, 47, 32,
                 82, 84, 83, 80, 47, 49, 46, 48, 13>>,
       S_CSeqHdr \o FmtU(n) \o <<13>>,
       <<13>> >>

\* handleOptions
OptionsResponse(seq) ==
    Snprintf(RespBufSize,
        S_StatusOK \o S_CSeqHdr \o FmtU(seq) \o S_CRLF
        \o <<80, 117, 98, 108, 105, 99, 58, 32, 79, 80, 84, 73, 79, 78, 83, 44, 32,
             68, 69, 83, 67, 82, 73, 66, 69, 44, 32, 83, 69, 84, 85, 80, 44, 32,
             80, 76, 65, 89, 44, 32, 84, 69, 65, 82, 68, 79, 87, 78, 13, 10>>
        \o S_CRLF).buf

\* handleDescribe: the SDP text built in sdp[512]
SdpText(sid, ip) ==
    Snprintf(SdpBufSize,
        <<118, 61, 48, 13, 10>>
        \o <<111, 61, 45, 32>> \o FmtU(sid) \o <<32, 49, 32, 73, 78, 32, 73, 80, 52, 32>>
        \o ip \o S_CRLF
        \o <<115, 61, 69, 83, 80, 51, 50, 45, 67, 65, 77, 32, 83, 116, 114, 101, 97,
             109, 13, 10>>
        \o <<116, 61, 48, 32, 48, 13, 10>>
        \o <<109, 61, 118, 105, 100, 101, 111, 32>> \o FmtU(RTSP_PORT)
        \o <<32, 82, 84, 80, 47, 65, 86, 80, 32, 50, 54, 13, 10>>
        \o <<99, 61, 73, 78, 32, 73, 80, 52, 32, 48, 46, 48, 46, 48, 46, 48, 13, 10>>
        \o <<97, 61, 99, 111, 110, 116, 114, 111, 108, 58, 116, 114, 97, 99, 107, 73,
             68, 61, 48, 13, 10>>).buf

\* variant: Content-Length taken from the size of the sdp buffer
DescribeResponseSizeof(seq, sid, ip) ==
    LET sdp == SdpText(sid, ip) IN
    Snprintf(DescBufSize,
        S_StatusOK \o S_CSeqHdr \o FmtU(seq) \o S_CRLF
        \o <<67, 111, 110, 116, 101, 110, 116, 45, 84, 121, 112, 101, 58, 32, 97, 112,
             112, 108, 105, 99, 97, 116, 105, 111, 110, 47, 115, 100, 112, 13, 10>>
        \o S_ContentLength \o FmtU(SdpBufSize) \o S_CRLF
        \o S_CRLF
        \o sdp).buf

\* handleDescribe: the response built in response[768], Content-Length: strlen(sdp)
DescribeResponse(seq, sid, ip) ==
    LET sdp == SdpText(sid, ip) IN
    Snprintf(DescBufSize,
        S_StatusOK \o S_CSeqHdr \o FmtU(seq) \o S_CRLF
        \o <<67, 111, 110, 116, 101, 110, 116, 45, 84, 121, 112, 101, 58, 32, 97, 112,
             112, 108, 105, 99, 97, 116, 105, 111, 110, 47, 115, 100, 112, 13, 10>>
        \o S_ContentLength \o FmtU(Len(sdp)) \o S_CRLF
        \o S_CRLF
        \o sdp).buf

\* handleSetup
SetupResponse(seq, sid) ==
    Snprintf(RespBufSize,
        S_StatusOK \o S_CSeqHdr \o FmtU(seq) \o S_CRLF
        \o S_Session \o FmtU(sid) \o S_CRLF
        \o <<84, 114, 97, 110, 115, 112, 111, 114, 116, 58, 32, 82, 84, 80, 47, 65, 86,
             80, 59, 117, 110, 105, 99, 97, 115, 116, 59, 99, 108, 105, 101, 110, 116,
             95, 112, 111, 114, 116, 61, 56, 48, 48, 48, 45, 56, 48, 48, 49, 13, 10>>
        \o S_CRLF).buf

\* handlePlay
PlayResponse(seq, sid) ==
    Snprintf(RespBufSize,
        S_StatusOK \o S_CSeqHdr \o FmtU(seq) \o S_CRLF
        \o S_Session \o FmtU(sid) \o S_CRLF
        \o <<82, 97, 110, 103, 101, 58, 32, 110, 112, 116, 61, 48, 46, 48, 48, 48, 45,
             13, 10>>
        \o S_CRLF).buf

\* handleTeardown (the response; the caller stops the client)
TeardownResponse(seq, sid) ==
    Snprintf(RespBufSize,
        S_StatusOK \o S_CSeqHdr \o FmtU(seq) \o S_CRLF
        \o S_Session \o FmtU(sid) \o S_CRLF
        \o S_CRLF).buf

\* the adapter's state as handle() and sendFrame() read and write it
RtspState ==
    [conn |-> clientConnected, pending |-> rtspPending, sock |-> rtspSock,
     rx |-> rtspRx, seq |-> sequenceNumber, ts |-> timestamp,
     resp |-> <<>>, rtp |-> <<>>, accepted |-> FALSE, cseq |-> cseqRead]

\* if (!clientConnected) { client = server.available(); if (client) clientConnected = true; }
Accept(st) ==
    IF st.conn THEN st
    ELSE IF st.pending
         THEN [st EXCEPT !.conn = TRUE, !.pending = FALSE, !.sock = "open",
                         !.rx = <<>>, !.accepted = TRUE, !.cseq = -1]
         ELSE [st EXCEPT !.sock = "none", !.rx = <<>>]

\* client.available()
Available(st) == st.sock = "open" /\ st.rx # <<>>

\* variant: the socket is closed but the adapter still counts the client
StopClientOnly(st) == [st EXCEPT !.sock = "stopped", !.rx = <<>>]

\* handleTeardown after the response: client.stop(); clientConnected = false
StopClient(st) == [st EXCEPT !.sock = "stopped", !.rx = <<>>, !.conn = FALSE]

\* the if / else-if chain on request.indexOf(verb): the handler's response, and
\* for TEARDOWN client.stop() and clientConnected = false
Dispatch(st, request) ==
    LET say(verb, text) == [st EXCEPT !.resp = Append(@, [verb |-> verb, text |-> text])] IN
    IF IndexOf(request, S_OPTIONS) >= 0
       THEN say("OPTIONS", OptionsResponse(st.seq))
    ELSE IF IndexOf(request, S_DESCRIBE) >= 0
       THEN say("DESCRIBE", DescribeResponse(st.seq, sessionId, localIP))
    ELSE IF IndexOf(request, S_SETUP) >= 0
       THEN say("SETUP", SetupResponse(st.seq, sessionId))
    ELSE IF IndexOf(request, S_PLAY) >= 0
       THEN say("PLAY", PlayResponse(st.seq, sessionId))
    ELSE IF IndexOf(request, S_TEARDOWN) >= 0
       THEN StopClient(say("TEARDOWN", TeardownResponse(st.seq, sessionId)))
    ELSE st

\* sequenceNumber = line.substring(line.indexOf(":") + 1).toInt()
ParseCSeq(line) == U16(ToInt(Substring(line, IndexOf(line, <<58>>) + 1)))

RECURSIVE FindCSeq(_)
\* while (client.available()) { line = ...; if (line.indexOf("CSeq") >= 0) { ...; break; } }
FindCSeq(st) ==
    IF ~Available(st) THEN st
    ELSE LET line == Head(st.rx)
             st1  == [st EXCEPT !.rx = Tail(@)]
         IN IF IndexOf(line, S_CSeq) >= 0
            THEN [st1 EXCEPT !.seq = ParseCSeq(line), !.cseq = ParseCSeq(line)]
            ELSE FindCSeq(st1)

\* RTSPServer::handle
Handle(st) ==
    LET st1 == Accept(st) IN
    IF st1.conn /\ Available(st1)
    THEN FindCSeq(Dispatch([st1 EXCEPT !.rx = Tail(@)], Head(st1.rx)))
    ELSE st1

\* timestamp += 90000 / 30 in sendRTPPacket
NextTimestamp(ts) == U32(ts + RtpClockRate \div RtpFrameRate)

\* sequenceNumber++ in sendRTPPacket
NextSequence(seq) == U16(seq + 1)

\* sizeof(RTPHeader): uint8_t, uint8_t, uint16_t, uint32_t, uint32_t
SizeofRTPHeader == 1 + 1 + 2 + 4 + 4

\* sendRTPPacket: the header's fields, the bytes written for it, and the payload's
\* source range
RtpPacket(st, from, len) ==
    [vpxcc |-> 128, mpt |-> 26, seq |-> st.seq, ts |-> st.ts, ssrc |-> RtpSsrc,
     hdr |-> SizeofRTPHeader, from |-> from, len |-> len]

RECURSIVE SendPackets(_, _, _)
\* the while (remaining > 0) loop of sendFrame
SendPackets(st, from, remaining) ==
    IF remaining > 0
    THEN LET packetSize == IF remaining > RtpMaxPacket THEN RtpMaxPacket ELSE remaining
         IN SendPackets([st EXCEPT !.rtp = Append(@, RtpPacket(st, from, packetSize)),
                                   !.seq = NextSequence(@),
                                   !.ts  = NextTimestamp(@)],
                        from + packetSize, remaining - packetSize)
    ELSE st

\* variant: the frame is packetised whether or not a client is connected
SendFrameAlways(st, f) == SendPackets(st, 0, f.len)

\* RTSPServer::sendFrame
SendFrame(st, f) == IF st.conn THEN SendPackets(st, 0, f.len) ELSE st

\* what the client has received of the RTP stream before the current step: the
\* sequence number of the last packet and the timestamp of the last frame's first
\* packet (NoPacket before the session's first frame)
NoPacket == [seq |-> -1, ts |-> -1]
RtpSeen ==
    IF rtpSent = <<>> THEN rtpPrev
    ELSE [seq |-> rtpSent[Len(rtpSent)].seq, ts |-> rtpSent[1].ts]

RtspBegin(identities) ==
    /\ clientConnected = FALSE /\ sequenceNumber = 0 /\ timestamp = 0
    /\ \E who \in identities : sessionId = who.sessionId /\ localIP = who.ip
    /\ rtspPending = FALSE /\ rtspRx = <<>> /\ rtspResp = <<>>
    /\ rtpSent = <<>> /\ rtpPrev = NoPacket /\ rtspSock = "none" /\ rtspTx = <<>>
    /\ cseqRead = -1

RtspInit == RtspBegin(RtspIdentities)

\* the camera calls of handleVideoRTSP: none without a client; else get and, on
\* success, after sendFrame, return
RtspCamCalls(conn, got) ==
    IF ~conn THEN <<>>
    ELSE IF got = NoFrame THEN <<CamGet(NoFrame)>>
    ELSE <<CamGet(got), CamReturn(got)>>

\* what handleVideoRTSP leaves behind: st1 after rtspServer.handle(), st2 after
\* sendFrame (or st1 when no frame was sent)
RtspCommit(st1, st2, got) ==
       /\ clientConnected' = st2.conn
       /\ rtspPending' = st2.pending
       /\ rtspSock' = st2.sock
       /\ rtspRx' = st2.rx
       /\ rtspTx' = IF st2.sock = "open" /\ ~st2.accepted THEN rtspTx ELSE <<>>
       /\ sequenceNumber' = st2.seq
       /\ timestamp' = st2.ts
       /\ rtspResp' = st2.resp
       /\ rtpSent' = st2.rtp
       /\ rtpPrev' = IF st2.accepted THEN NoPacket ELSE RtpSeen
       /\ cseqRead' = st2.cseq
       /\ CamStep(RtspCamCalls(st1.conn, got))
       /\ slept' = TaskIteration(IF st1.conn /\ got = NoFrame THEN <<>>
                                 ELSE <<DelayMs(FRAME_INTERVAL_MS)>>)
       /\ UNCHANGED <<sessionId, localIP>>

\* handleVideoRTSP, as one iteration of videoTask
HandleVideoRTSP(got) ==
    \E st1 \in {Handle(RtspState)} :
    \E st2 \in {IF st1.conn /\ got # NoFrame THEN SendFrame(st1, got) ELSE st1} :
       RtspCommit(st1, st2, got)

RtspPump ==
    /\ videoProtocol = "RTSP"
    /\ \E got \in (IF Handle(RtspState).conn
                   THEN Acquirable(RtspFrameLens, MaxRtspFrames) ELSE {NoFrame}) :
          HandleVideoRTSP(got)
    /\ ctx' = "video"
    /\ UNCHANGED <<videoProtocol, httpVars, udpVars, wsVars, ctrlVars, fwVars, bootVars>>

\* a step of the client leaves the adapter's state alone; what the last pump step
\* wrote is then in the past
RtspIdle ==
    /\ rtspResp' = <<>> /\ rtpSent' = <<>> /\ rtpPrev' = RtpSeen
    /\ camTrace' = <<>> /\ slept' = <<>> /\ ctx' = "none"
    /\ UNCHANGED <<clientConnected, sessionId, sequenceNumber, timestamp, localIP,
                   cseqRead, nextFrame, held, retCount>>
    /\ UNCHANGED <<videoProtocol, httpVars, udpVars, wsVars, ctrlVars, fwVars, bootVars>>

\* a TCP client connects to the RTSP port and waits to be accepted
RtspClientConnects ==
    /\ videoProtocol = "RTSP"
    /\ ~rtspPending /\ rtspSock # "open"
    /\ rtspPending' = TRUE
    /\ RtspIdle
    /\ UNCHANGED <<rtspRx, rtspSock, rtspTx>>

\* the accepted client starts a request with one of the CSeq values cseqs
RtspRequests(cseqs) ==
    /\ rtspSock = "open" /\ rtspTx = <<>>
    /\ \E verb \in ClientVerbs, n \in cseqs : rtspTx' = RequestLines(verb, n)
    /\ RtspIdle
    /\ UNCHANGED <<rtspPending, rtspRx, rtspSock>>

RtspClientRequests == RtspRequests(CSeqValues)

\* a client that numbers every request alike
RtspClientRepeats == RtspRequests({2})

\* the next line of the client's request arrives
RtspLineArrives ==
    /\ rtspSock = "open" /\ rtspTx # <<>> /\ Len(rtspRx) < MaxRx
    /\ rtspRx' = Append(rtspRx, Head(rtspTx))
    /\ rtspTx' = Tail(rtspTx)
    /\ RtspIdle
    /\ UNCHANGED <<rtspPending, rtspSock>>

\* the accepted client closes its connection, everything it had sent having been
\* read: no code of the adapter runs
RtspPeerCloses ==
    /\ rtspSock = "open" /\ rtspRx = <<>>
    /\ rtspSock' = "closed"
    /\ rtspTx' = <<>>
    /\ RtspIdle
    /\ UNCHANGED <<rtspPending, rtspRx>>

----------------------------------------------------------------------------
(* Placeholders of the adapters a build leaves out *)

----------------------------------------------------------------------------
(* WebSocket signaling adapter: firmware/src/video_webrtc.h *)

MaxEvents == 1      \* WebSocket events one call of webRTC.loop() delivers

WsClientNums == {0, 1}
WsFrameLens  == {200}

\* a text message, as deserializeJson and the lookups of the handler see it
BadJson     == [ok |-> FALSE, type |-> "", candidate |-> FALSE]
WsMessages ==
    { BadJson,
      [ok |-> TRUE, type |-> "", candidate |-> FALSE],
      [ok |-> TRUE, type |-> "offer", candidate |-> FALSE],
      [ok |-> TRUE, type |-> "ice-candidate", candidate |-> TRUE],
      [ok |-> TRUE, type |-> "ice-candidate", candidate |-> FALSE],
      [ok |-> TRUE, type |-> "bye", candidate |-> FALSE] }

WsConnected(n)    == [t |-> "CONNECTED", num |-> n, msg |-> BadJson]
WsDisconnected(n) == [t |-> "DISCONNECTED", num |-> n, msg |-> BadJson]
WsText(n, m)      == [t |-> "TEXT", num |-> n, msg |-> m]

\* the events the server can deliver next when the clients in cs are connected
WsEventsFrom(cs) ==
    {WsConnected(n) : n \in WsClientNums \ cs}
    \cup {WsDisconnected(n) : n \in cs}
    \cup {WsText(n, m) : n \in cs, m \in WsMessages}

WsClientsAfter(cs, ev) ==
    IF ev.t = "CONNECTED" THEN cs \cup {ev.num}
    ELSE IF ev.t = "DISCONNECTED" THEN cs \ {ev.num}
    ELSE cs

\* the event sequences of length at most n one call of loop() can deliver
RECURSIVE WsEventSeqs(_, _)
WsEventSeqs(cs, n) ==
    IF n = 0 THEN {<<>>}
    ELSE {<<>>} \cup
         UNION { { <<ev>> \o rest : rest \in WsEventSeqs(WsClientsAfter(cs, ev), n - 1) }
                 : ev \in WsEventsFrom(cs) }

WsState ==
    [state |-> webrtcState, cur |-> currentClient, clients |-> wsClients, out |-> <<>>]

\* variant: the answer is sent but the sender does not become the current client
HandleWebRTCMessageNoClient(st, num, msg) ==
    IF ~msg.ok THEN st
    ELSE IF msg.type = "offer"
    THEN [st EXCEPT !.out = Append(@, [to |-> num, kind |-> "TXT", type |-> "answer"]),
                    !.state = "SIGNALING"]
    ELSE IF msg.type = "ice-candidate" /\ msg.candidate
    THEN [st EXCEPT !.out = Append(@, [to |-> num, kind |-> "TXT", type |-> "ice-ack"])]
    ELSE st

\* handleWebRTCMessage
HandleWebRTCMessage(st, num, msg) ==
    IF ~msg.ok THEN st
    ELSE IF msg.type = "offer"
    THEN [st EXCEPT !.out = Append(@, [to |-> num, kind |-> "TXT", type |-> "answer"]),
                    !.state = "SIGNALING",
                    !.cur = num]
    ELSE IF msg.type = "ice-candidate" /\ msg.candidate
    THEN [st EXCEPT !.out = Append(@, [to |-> num, kind |-> "TXT", type |-> "ice-ack"])]
    ELSE st

\* variant: the disconnect of any client ends the stream
WebRTCEventAnyDisconnect(st, ev) ==
    LET st1 == [st EXCEPT !.clients = WsClientsAfter(@, ev)] IN
    IF ev.t = "DISCONNECTED"
    THEN [st1 EXCEPT !.state = "DISCONNECTED", !.cur = 0]
    ELSE IF ev.t = "TEXT" THEN HandleWebRTCMessage(st1, ev.num, ev.msg)
    ELSE st1

\* variant: a disconnect clears the current client but not the state
WebRTCEventKeepsState(st, ev) ==
    LET st1 == [st EXCEPT !.clients = WsClientsAfter(@, ev)] IN
    IF ev.t = "DISCONNECTED"
    THEN IF ev.num = st.cur THEN [st1 EXCEPT !.cur = 0] ELSE st1
    ELSE IF ev.t = "TEXT" THEN HandleWebRTCMessage(st1, ev.num, ev.msg)
    ELSE st1

\* webRTCEvent, with the server's own bookkeeping of connected clients
WebRTCEvent(st, ev) ==
    LET st1 == [st EXCEPT !.clients = WsClientsAfter(@, ev)] IN
    IF ev.t = "DISCONNECTED"
    THEN IF ev.num = st.cur THEN [st1 EXCEPT !.state = "DISCONNECTED", !.cur = 0] ELSE st1
    ELSE IF ev.t = "TEXT" THEN HandleWebRTCMessage(st1, ev.num, ev.msg)
    ELSE st1

\* webRTC.loop(): the callback runs for each delivered event, in order
RECURSIVE WsLoop(_, _)
WsLoop(st, evs) ==
    IF evs = <<>> THEN st ELSE WsLoop(WebRTCEvent(st, Head(evs)), Tail(evs))

\* sendWebRTCFrame
SendWebRTCFrame(st, f) ==
    IF st.state # "CONNECTED" \/ f = NoFrame THEN st
    ELSE IF Cardinality(st.clients) > 0 /\ st.cur \in st.clients
    THEN [st EXCEPT !.out = Append(@, [to |-> st.cur, kind |-> "BIN", type |-> "frame"])]
    ELSE st

\* variant: the frame is returned only when it has been sent
WsCamCallsLeak(st, got) ==
    IF st.state = "DISCONNECTED" THEN <<>>
    ELSE IF got = NoFrame THEN <<CamGet(NoFrame)>>
    ELSE IF st.state = "CONNECTED" THEN <<CamGet(got), CamReturn(got)>>
    ELSE <<CamGet(got)>>

\* the camera calls of handleVideoWebRTC: none while DISCONNECTED; else get and,
\* on success, after sendWebRTCFrame, return
WsCamCalls(st, got) ==
    IF st.state = "DISCONNECTED" THEN <<>>
    ELSE IF got = NoFrame THEN <<CamGet(NoFrame)>>
    ELSE <<CamGet(got), CamReturn(got)>>

WsInit ==
    /\ webrtcState = "DISCONNECTED" /\ currentClient = 0
    /\ wsClients = {} /\ wsEvents = <<>> /\ wsOut = <<>>

\* what handleVideoWebRTC leaves behind: st1 after webRTC.loop(), st2 after
\* sendWebRTCFrame (or st1 while DISCONNECTED)
WsCommit(evs, st1, st2, got) ==
       /\ wsEvents' = evs
       /\ webrtcState' = st2.state
       /\ currentClient' = st2.cur
       /\ wsClients' = st2.clients
       /\ wsOut' = st2.out
       /\ CamStep(WsCamCalls(st1, got))
       /\ slept' = IF st1.state # "DISCONNECTED" /\ got = NoFrame
                   THEN TaskIteration(<<>>)
                   ELSE TaskIteration(<<DelayMs(FRAME_INTERVAL_MS)>>)

\* handleVideoWebRTC, as one iteration of videoTask
HandleVideoWebRTC(evs, got) ==
    \E st1 \in {WsLoop(WsState, evs)} :
    \E st2 \in {IF st1.state # "DISCONNECTED" THEN SendWebRTCFrame(st1, got) ELSE st1} :
       WsCommit(evs, st1, st2, got)

\* the pump step when webRTC.loop() delivers at most n events
WsServe(n) ==
    /\ videoProtocol = "WebRTC"
    /\ \E evs \in WsEventSeqs(wsClients, n) :
         \E got \in (IF WsLoop(WsState, evs).state # "DISCONNECTED"
                     THEN Acquirable(WsFrameLens, MaxFrames) ELSE {NoFrame}) :
            HandleVideoWebRTC(evs, got)
    /\ ctx' = "video"
    /\ UNCHANGED <<videoProtocol, httpVars, udpVars, rtspVars, ctrlVars, fwVars, bootVars>>

WsPump == WsServe(MaxEvents)

\* the pump step with clients whose events arrive one per call of webRTC.loop()
WsPumpSingle == WsServe(1)

----------------------------------------------------------------------------
(* WebSocket signaling adapter, second copy: src/video_webrtc.h *)

\* handleWebRTCMessage of src/video_webrtc.h: an offer is recorded, nothing is sent
SrcHandleWebRTCMessage(st, num, msg) ==
    IF ~msg.ok THEN st
    ELSE IF msg.type = "offer"
    THEN [st EXCEPT !.state = "CONNECTED", !.cur = num]
    ELSE st

\* webRTCEvent of src/video_webrtc.h
SrcWebRTCEvent(st, ev) ==
    LET st1 == [st EXCEPT !.clients = WsClientsAfter(@, ev)] IN
    IF ev.t = "DISCONNECTED"
    THEN IF ev.num = st.cur THEN [st1 EXCEPT !.state = "DISCONNECTED", !.cur = 0] ELSE st1
    ELSE IF ev.t = "TEXT" THEN SrcHandleWebRTCMessage(st1, ev.num, ev.msg)
    ELSE st1

RECURSIVE SrcWsLoop(_, _)
SrcWsLoop(st, evs) ==
    IF evs = <<>> THEN st ELSE SrcWsLoop(SrcWebRTCEvent(st, Head(evs)), Tail(evs))

\* handleVideoWebRTC of src/video_webrtc.h
SrcHandleVideoWebRTC(evs, got) ==
    \E st1 \in {SrcWsLoop(WsState, evs)} :
    \E st2 \in {IF st1.state # "DISCONNECTED" THEN SendWebRTCFrame(st1, got) ELSE st1} :
       WsCommit(evs, st1, st2, got)

\* one call of handleVideoWebRTC with the events loop() delivers, one at a time
SrcWsPump ==
    /\ videoProtocol = "WebRTC_src"
    /\ \E evs \in WsEventSeqs(wsClients, 1) :
         \E got \in (IF SrcWsLoop(WsState, evs).state # "DISCONNECTED"
                     THEN Acquirable(WsFrameLens, MaxFrames) ELSE {NoFrame}) :
            SrcHandleVideoWebRTC(evs, got)
    /\ ctx' = "video"
    /\ UNCHANGED <<videoProtocol, httpVars, udpVars, rtspVars, ctrlVars, fwVars, bootVars>>

----------------------------------------------------------------------------
(* Control decoders: firmware/src/ctrl_http.h, ctrl_udp.h, ctrl_websocket.h *)

MaxKeys == 2        \* keys of one control message

CONTROL_INTERVAL_MS == 10

IntKeys    == {"pan", "tilt", "zoom", "brightness"}
CtrlKeys   == IntKeys \cup {"led"}
CtrlValues == {-150, 100, 150}

\* a control message as deserializeJson leaves it: an error, or an object of at
\* most MaxKeys of the five keys (num: the numbers under the numeric keys, led:
\* the boolean under "led")
NoDoc == [ok |-> FALSE, keys |-> {}, num |-> [k \in IntKeys |-> 0], led |-> FALSE]
CtrlDocs ==
    {NoDoc} \cup
    UNION { { [ok |-> TRUE, keys |-> ks,
               num |-> [k \in IntKeys |-> IF k \in ks THEN v[k] ELSE 0],
               led |-> l]
              : v \in [ks \cap IntKeys -> CtrlValues],
                l \in (IF "led" \in ks THEN BOOLEAN ELSE {FALSE}) }
            : ks \in {x \in SUBSET CtrlKeys : Cardinality(x) <= MaxKeys} }

\* currentControl.k = doc["k"] for an int field: the number of the document,
\* converted to int (a number that fits is kept as it is)
Store(k, v) == v

\* the five guarded assignments of a decoder
ApplyDoc(cc, doc) ==
    IF ~doc.ok THEN cc
    ELSE [pan        |-> IF "pan" \in doc.keys THEN Store("pan", doc.num["pan"])
                                               ELSE cc.pan,
          tilt       |-> IF "tilt" \in doc.keys THEN Store("tilt", doc.num["tilt"])
                                                ELSE cc.tilt,
          zoom       |-> IF "zoom" \in doc.keys THEN Store("zoom", doc.num["zoom"])
                                                ELSE cc.zoom,
          led        |-> IF "led" \in doc.keys THEN doc.led ELSE cc.led,
          brightness |-> IF "brightness" \in doc.keys
                         THEN Store("brightness", doc.num["brightness"])
                         ELSE cc.brightness]

Ack == [kind |-> "ack"]

\* the actuator step shared by the three handleControl functions, then the delay
Actuate(cc) ==
    /\ ledPin' = cc.led
    /\ slept' = TaskIteration(<<DelayMs(CONTROL_INTERVAL_MS)>>)

CtrlInit ==
    /\ ctrlProto \in {"HTTP", "UDP", "WebSocket"}
    /\ currentControl = [pan |-> 0, tilt |-> 0, zoom |-> 0, led |-> FALSE, brightness |-> 50]
    /\ ctrlAcks = <<>> /\ ledPin = FALSE

CtrlFrame == UNCHANGED <<videoProtocol, nextFrame, held, retCount, camTrace,
                         httpVars, udpVars, rtspVars, wsVars, ctrlProto,
                         fwVars, bootVars>>

\* POST /control: the body handler decodes, the request handler sends status 200
ControlPost(doc) ==
    /\ currentControl' = ApplyDoc(currentControl, doc)
    /\ ctrlAcks' = <<[kind |-> "status200"]>>

CtrlHttpPost ==
    /\ ctrlProto = "HTTP"
    /\ \E doc \in CtrlDocs : ControlPost(doc)
    /\ ctx' = "async_tcp"
    /\ UNCHANGED <<ledPin, slept>>
    /\ CtrlFrame

\* handleControlHTTP
HandleControlHTTP ==
    /\ ctrlProto = "HTTP"
    /\ Actuate(currentControl)
    /\ ctrlAcks' = <<>>
    /\ ctx' = "control"
    /\ UNCHANGED currentControl
    /\ CtrlFrame

\* the body of handleControlUDP: processControlPacket on the datagram read, if
\* any, then the actuator step
ProcessControlPacket(packet, doc) ==
    /\ currentControl' = ApplyDoc(currentControl, doc)
    /\ ctrlAcks' = IF packet /\ doc.ok THEN <<Ack>> ELSE <<>>
    /\ Actuate(ApplyDoc(currentControl, doc))

\* handleControlUDP: a waiting datagram, if any, is decoded and acknowledged
HandleControlUDP ==
    /\ ctrlProto = "UDP"
    /\ \E packet \in BOOLEAN : \E doc \in (IF packet THEN CtrlDocs ELSE {NoDoc}) :
          ProcessControlPacket(packet, doc)
    /\ ctx' = "control"
    /\ CtrlFrame

\* the body of handleControlWebSocket: webSocketEvent on an event of type t (with
\* the decoded text of a TEXT event), then the actuator step
WebSocketEvent(t, doc) ==
    /\ currentControl' = ApplyDoc(currentControl, doc)
    /\ ctrlAcks' = IF t = "TEXT" /\ doc.ok THEN <<Ack>>
                   ELSE IF t = "CONNECTED"
                   THEN <<[kind |-> "state", state |-> currentControl]>>
                   ELSE <<>>
    /\ Actuate(ApplyDoc(currentControl, doc))

\* handleControlWebSocket: webSocket.loop() delivers to webSocketEvent what one
\* client has sent, then the actuator step runs
HandleControlWebSocket ==
    /\ ctrlProto = "WebSocket"
    /\ \E t \in {"none", "CONNECTED", "DISCONNECTED", "TEXT"} :
       \E doc \in (IF t = "TEXT" THEN CtrlDocs ELSE {NoDoc}) :
          WebSocketEvent(t, doc)
    /\ ctx' = "control"
    /\ CtrlFrame

----------------------------------------------------------------------------
(* Parts a build does not hold *)

RtspAbsent ==
    /\ clientConnected = FALSE /\ sessionId = 0 /\ sequenceNumber = 0 /\ timestamp = 0
    /\ localIP = <<>> /\ rtspPending = FALSE /\ rtspRx = <<>> /\ rtspResp = <<>>
    /\ rtpSent = <<>> /\ rtpPrev = NoPacket /\ rtspSock = "none" /\ rtspTx = <<>>
    /\ cseqRead = -1

CtrlAbsent ==
    /\ ctrlProto = "none"
    /\ currentControl = [pan |-> 0, tilt |-> 0, zoom |-> 0, led |-> FALSE, brightness |-> 50]
    /\ ctrlAcks = <<>> /\ ledPin = FALSE

----------------------------------------------------------------------------
(* Specifications: one per build *)

\* no step has run yet
TaskInit == ctx = "none"

\* setup() has returned from its last line: both tasks exist
SetupDone ==
    setupPc = "returned" /\ videoTaskHandle = "created" /\ controlTaskHandle = "created"

NoHttpClient == httpConn = {}

InitHTTP ==
    /\ videoProtocol = "HTTP"
    /\ TaskInit /\ SetupDone /\ CamInit /\ FwHttpAbsent /\ HttpInit /\ httpConn = {1} /\ UdpInit /\ RtspAbsent /\ WsInit /\ CtrlAbsent
NextHTTP == HttpCall
SpecHTTP == InitHTTP /\ [][NextHTTP]_vars

\* the HTTP build with one stream, empty buffers and empty frames included
NextHTTPEdge == HttpEdgeCall
SpecHTTPEdge == InitHTTP /\ [][NextHTTPEdge]_vars

\* the HTTP build with its web server: clients come and go, loop() runs
InitHTTPServer ==
    /\ videoProtocol = "HTTP"
    /\ TaskInit /\ SetupDone /\ CamInit /\ FwHttpAbsent /\ HttpInit /\ NoHttpClient /\ UdpInit /\ RtspAbsent /\ WsInit /\ CtrlAbsent
NextHTTPServer ==
    \/ HttpServerCall
    \/ HttpConnects
    \/ HttpDisconnects
    \/ HandleVideoHTTP
SpecHTTPServer == InitHTTPServer /\ [][NextHTTPServer]_vars

InitUDP ==
    /\ videoProtocol = "UDP"
    /\ TaskInit /\ SetupDone /\ CamInit /\ FwHttpAbsent /\ HttpInit /\ NoHttpClient /\ UdpInit /\ RtspAbsent /\ WsInit /\ CtrlAbsent
NextUDP == UdpPump
SpecUDP == InitUDP /\ [][NextUDP]_vars

\* the builds whose adapter keeps or takes frames: the HTTP server and the UDP pump
InitHttpUdp == InitHTTPServer \/ InitUDP
NextHttpUdp ==
    \/ HttpServerCall
    \/ HttpConnects
    \/ HttpDisconnects
    \/ HandleVideoHTTP
    \/ UdpPump
SpecHttpUdp == InitHttpUdp /\ [][NextHttpUdp]_vars

InitRTSP ==
    /\ videoProtocol = "RTSP"
    /\ TaskInit /\ SetupDone /\ CamInit /\ FwHttpAbsent /\ HttpInit /\ NoHttpClient /\ UdpInit /\ RtspInit /\ WsInit /\ CtrlAbsent
NextRTSP ==
    \/ RtspPump
    \/ RtspClientConnects
    \/ RtspClientRequests
    \/ RtspLineArrives
SpecRTSP == InitRTSP /\ [][NextRTSP]_vars

InitWebRTC ==
    /\ videoProtocol = "WebRTC"
    /\ TaskInit /\ SetupDone /\ CamInit /\ FwHttpAbsent /\ HttpInit /\ NoHttpClient /\ UdpInit /\ RtspAbsent /\ WsInit /\ CtrlAbsent
NextWebRTC == WsPump
SpecWebRTC == InitWebRTC /\ [][NextWebRTC]_vars

\* the signaling adapter of src/video_webrtc.h
InitWebRTCSrc ==
    /\ videoProtocol = "WebRTC_src"
    /\ TaskInit /\ SetupDone /\ CamInit /\ FwHttpAbsent /\ HttpInit /\ NoHttpClient /\ UdpInit /\ RtspAbsent /\ WsInit /\ CtrlAbsent
NextWebRTCSrc == SrcWsPump
SpecWebRTCSrc == InitWebRTCSrc /\ [][NextWebRTCSrc]_vars

\* the firmware with any one of its pumped video adapters (VIDEO_PROTOCOL)
InitVideo == InitUDP \/ InitRTSP \/ InitWebRTC
NextVideo ==
    \/ UdpPump
    \/ RtspPump
    \/ RtspClientConnects
    \/ RtspClientRequests
    \/ RtspLineArrives
    \/ WsPump
SpecVideo == InitVideo /\ [][NextVideo]_vars

\* the firmware's HTTP build: videoTask and requests for /video
InitHTTPFirmware ==
    /\ videoProtocol = "HTTP_firmware"
    /\ TaskInit /\ SetupDone /\ CamInit /\ FwHttpAbsent /\ HttpInit /\ NoHttpClient /\ UdpInit /\ RtspAbsent /\ WsInit /\ CtrlAbsent
NextHTTPFirmware ==
    \/ FwHttpPump
    \/ FwVideoRequest
SpecHTTPFirmware == InitHTTPFirmware /\ [][NextHTTPFirmware]_vars

\* the RTSP build with clients that may close the connection at any time; the
\* video task runs for as long as its step changes anything
InitRTSPPeer ==
    /\ videoProtocol = "RTSP"
    /\ TaskInit /\ SetupDone /\ CamInit /\ FwHttpAbsent /\ HttpInit /\ NoHttpClient /\ UdpInit /\ WsInit /\ CtrlAbsent
    /\ RtspBegin({[sessionId |-> 999999, ip |-> <<48, 46, 48, 46, 48, 46, 48>>]})
NextRTSPPeer ==
    \/ RtspPump
    \/ RtspClientConnects
    \/ RtspClientRepeats
    \/ RtspLineArrives
    \/ RtspPeerCloses
SpecRTSPPeer == InitRTSPPeer /\ [][NextRTSPPeer]_vars /\ WF_vars(RtspPump)

\* the control task with any one of its decoders (CONTROL_PROTOCOL); the video
\* task is left out
InitCtrl ==
    /\ videoProtocol = "none"
    /\ TaskInit /\ SetupDone /\ CamInit /\ FwHttpAbsent /\ HttpInit /\ NoHttpClient /\ UdpInit /\ RtspAbsent /\ WsInit /\ CtrlInit
NextCtrl ==
    \/ CtrlHttpPost
    \/ HandleControlHTTP
    \/ HandleControlUDP
    \/ HandleControlWebSocket
SpecCtrl == InitCtrl /\ [][NextCtrl]_vars

----------------------------------------------------------------------------
(* setup(): firmware/src/main.cpp *)

\* initCamera() reports whether esp_camera_init succeeded; on failure setup() returns
SetupInitCamera ==
    /\ setupPc = "initCamera"
    /\ \E ok \in BOOLEAN : setupPc' = IF ok THEN "wifi" ELSE "returned"
    /\ ctx' = "setup" /\ camTrace' = <<>> /\ slept' = <<>>
    /\ UNCHANGED <<videoProtocol, nextFrame, held, retCount, httpVars, udpVars, rtspVars,
                   wsVars, ctrlVars, fwVars, videoTaskHandle, controlTaskHandle>>

\* one test of WiFi.status(): connected, or delay(500) and test again
SetupWifi ==
    /\ setupPc = "wifi"
    /\ \E connected \in BOOLEAN :
          /\ setupPc' = IF connected THEN "create" ELSE "wifi"
          /\ slept' = IF connected THEN <<>> ELSE <<DelayMs(500)>>
    /\ ctx' = "setup" /\ camTrace' = <<>>
    /\ UNCHANGED <<videoProtocol, nextFrame, held, retCount, httpVars, udpVars, rtspVars,
                   wsVars, ctrlVars, fwVars, videoTaskHandle, controlTaskHandle>>

\* the adapters are initialized and the two xTaskCreatePinnedToCore calls made
SetupCreateTasks ==
    /\ setupPc = "create"
    /\ videoTaskHandle' = "created" /\ controlTaskHandle' = "created"
    /\ setupPc' = "returned"
    /\ ctx' = "setup" /\ camTrace' = <<>> /\ slept' = <<>>
    /\ UNCHANGED <<videoProtocol, nextFrame, held, retCount, httpVars, udpVars, rtspVars,
                   wsVars, ctrlVars, fwVars>>

\* one iteration of videoTask, once the task exists
VideoTask == videoTaskHandle = "created" /\ UdpPump

\* one iteration of controlTask, once the task exists
ControlTask == controlTaskHandle = "created" /\ HandleControlHTTP

\* the firmware from reset, in the build with the UDP adapter and the HTTP decoder
InitBoot ==
    /\ videoProtocol = "UDP"
    /\ setupPc = "initCamera" /\ videoTaskHandle = "NULL" /\ controlTaskHandle = "NULL"
    /\ TaskInit /\ CamInit /\ FwHttpAbsent /\ HttpInit /\ NoHttpClient /\ UdpInit /\ RtspAbsent /\ WsInit
    /\ CtrlInit /\ ctrlProto = "HTTP"
NextBoot ==
    \/ SetupInitCamera
    \/ SetupWifi
    \/ SetupCreateTasks
    \/ VideoTask
    \/ ControlTask
SpecBoot == InitBoot /\ [][NextBoot]_vars

\* C31: once setup() has returned, the video task and the control task both exist
\* (and so run their loops): no outcome of the initialization leaves one out
C31_BothTasksCreated ==
    setupPc = "returned" => videoTaskHandle = "created" /\ controlTaskHandle = "created"

\* the two tasks of the firmware, one build at a time: videoTask with any one of
\* the pumped video adapters, or controlTask with any one of the decoders
InitTasks ==
    \/ InitUDP
    \/ InitWebRTC
    \/ InitHTTPFirmware
    \/ /\ videoProtocol = "RTSP"
       /\ TaskInit /\ SetupDone /\ CamInit /\ FwHttpAbsent /\ HttpInit /\ NoHttpClient /\ UdpInit /\ WsInit /\ CtrlAbsent
       /\ RtspBegin({[sessionId |-> 999999, ip |-> <<48, 46, 48, 46, 48, 46, 48>>]})
    \/ InitCtrl
NextTasks ==
    \/ UdpPump
    \/ RtspPump
    \/ RtspClientConnects
    \/ RtspClientRepeats
    \/ RtspLineArrives
    \/ WsPumpSingle
    \/ FwHttpPump
    \/ FwVideoRequest
    \/ CtrlHttpPost
    \/ HandleControlHTTP
    \/ HandleControlUDP
    \/ HandleControlWebSocket
SpecTasks == InitTasks /\ [][NextTasks]_vars

----------------------------------------------------------------------------
(* Properties of the chunked HTTP callback *)

\* the per-frame header in the claim's words: CRLF, two dashes, boundary, CRLF,
\* Content-Type: image/jpeg, CRLF, Content-Length: L, CRLF CRLF
ExpectedHeader(L) ==
    <<13, 10>> \o <<45, 45>> \o BOUNDARY \o <<13, 10>>
    \o <<67, 111, 110, 116, 101, 110, 116, 45, 84, 121, 112, 101, 58, 32,
         105, 109, 97, 103, 101, 47, 106, 112, 101, 103>> \o <<13, 10>>
    \o <<67, 111, 110, 116, 101, 110, 116, 45, 76, 101, 110, 103, 116, 104, 58, 32>>
    \o FmtU(L) \o <<13, 10>> \o <<13, 10>>

\* the header followed by the L bytes of frame f in order
ExpectedStream(f) == ExpectedHeader(f.len) \o [k \in 1..f.len |-> FrameByte(f.id, k - 1)]

\* C1: whatever buffer sizes are offered, the bytes returned for one frame are a
\* prefix of its header followed by its L bytes, and are exactly that sequence
\* (header_bytes + L bytes) once the frame has been released
C1_ChunkedStreamExact ==
    httpFrame # NoFrame =>
       /\ IsPrefix(httpSent, ExpectedStream(httpFrame))
       /\ Len(httpRet) <= httpMaxLen
       /\ (fb = NoFrame =>
             /\ httpSent = ExpectedStream(httpFrame)
             /\ Len(httpSent) = Len(ExpectedHeader(httpFrame.len)) + httpFrame.len)

\* a 12-byte frame has been streamed to its end, the last byte in a 1-byte buffer
C1_Witness ==
    /\ fb = NoFrame /\ httpFrame.len = 12 /\ httpMaxLen = 1
    /\ Len(httpRet) = 1 /\ Len(httpSent) = 96

lastGetFailed == camTrace # <<>> /\ camTrace[1].op = "get" /\ camTrace[1].id = 0
lastGetOk     == camTrace # <<>> /\ camTrace[1].op = "get" /\ camTrace[1].id # 0

\* C7 as stated: fewer than 5 failures in a row cause no cooldown and the 5th
\* causes one cooldown and a counter reset
C7_CooldownAtFifth ==
    lastGetFailed =>
       /\ (failRun < 5 => slept = <<>>)
       /\ (failRun = 5 => slept = <<DelayMs(CooldownMs)>> /\ failCount = 0)

\* C7 amended: a failed acquire leaves the callback without a frame, so the next
\* call acquires again; up to 5 failures in a row cause no cooldown, the 6th
\* causes exactly one cooldown of 100 ms and resets the counter to 0; a
\* successful acquire resets the counter to 0
C7_CooldownAtSixth ==
    /\ failRun \in 0..6
    /\ lastGetFailed =>
          /\ fb = NoFrame /\ httpRet = <<>>
          /\ (failRun < 6 => slept = <<>> /\ failCount = failRun)
          /\ (failRun = 6 => slept = <<DelayMs(CooldownMs)>> /\ failCount = 0)
    /\ lastGetOk => failCount = 0 /\ failRun = 0 /\ slept = <<>>

\* the sixth failure in a row has just been answered by the cooldown
C7_Witness == lastGetFailed /\ failRun = 6 /\ slept # <<>> /\ failCount = 0

returnsIn(trace) == {i \in DOMAIN trace : trace[i].op = "return"}

\* C10: in every call, a call without a frame starts by acquiring; the frame in
\* hand is returned in exactly the call in which the body offset reaches its
\* length, once, after all its bytes have been emitted, and the callback then
\* holds no frame; until then it is held and has never been returned
C10_ReleasedOnceAtEnd ==
    [][LET cur == IF fb = NoFrame THEN httpFrame' ELSE fb
           acquired == fb # NoFrame \/ (camTrace' # <<>> /\ camTrace'[1] = CamGet(cur)
                                        /\ cur # NoFrame)
           rets == returnsIn(camTrace')
       IN /\ fb = NoFrame => camTrace' # <<>> /\ camTrace'[1].op = "get"
          /\ fb # NoFrame => \A i \in DOMAIN camTrace' : camTrace'[i].op # "get"
          /\ Cardinality(rets) <= 1
          /\ ~acquired => rets = {} /\ fb' = NoFrame
          /\ acquired =>
               /\ (rets # {}) <=> (~needHeader' /\ offset' = cur.len
                                    /\ (fb # NoFrame => offset < cur.len))
               /\ rets # {} =>
                    /\ \A i \in rets : camTrace'[i] = CamReturn(cur)
                    /\ fb' = NoFrame /\ cur.id \notin held'
                    /\ retCount'[cur.id] = 1
                    /\ httpSent' = ExpectedStream(cur)
               /\ rets = {} =>
                    /\ fb' = cur /\ held' = {cur.id}
                    /\ retCount'[cur.id] = 0
      ]_vars

\* the second frame has just been returned: in the call that sent its last byte
C10_Witness ==
    /\ camTrace = <<CamReturn(httpFrame)>> /\ httpFrame.id = 2 /\ httpFrame.len = 100
    /\ fb = NoFrame /\ retCount[2] = 1 /\ retCount[1] = 1 /\ held = {}

----------------------------------------------------------------------------
(* Properties of the UDP adapter *)

\* ceil(L / 1400)
CeilDiv(L, d) == CHOOSE n \in 0..L : n * d >= L /\ (n = 0 \/ (n - 1) * d < L)

RECURSIVE SumPayload(_)
SumPayload(ds) == IF ds = <<>> THEN 0 ELSE ds[1].payloadSize + SumPayload(Tail(ds))

\* C2: the datagrams of a frame of length L are ceil(L/1400) in number, numbered
\* 0.. in send order, all with that total and frameSize L, each payload at most
\* 1400, the payloads sum to L and the last one is L - (totalPackets-1)*1400
C2_Fragmentation ==
    lastGetOk =>
       LET L == camTrace[1].len
           n == CeilDiv(L, 1400)
       IN /\ Len(udpSent) = n
          /\ \A i \in 1..n :
                /\ udpSent[i].packetNumber = i - 1
                /\ udpSent[i].totalPackets = n
                /\ udpSent[i].frameSize = L
                /\ udpSent[i].payloadSize <= 1400
                /\ udpSent[i].from = (i - 1) * 1400
          /\ SumPayload(udpSent) = L
          /\ udpSent[n].payloadSize = L - (n - 1) * 1400

\* a frame of 3000 bytes left as fragments of 1400, 1400 and 200 bytes
C2_Witness ==
    /\ lastGetOk /\ camTrace[1].len = 3000
    /\ [i \in 1..Len(udpSent) |-> udpSent[i].payloadSize] = <<1400, 1400, 200>>

\* C3: the i-th frame sent carries frameNumber i (1 for the first, one more for
\* each later one, whatever captures failed in between), a failed capture sends
\* nothing, and all datagrams of a frame carry the frame's number
C3_FrameNumbers ==
    /\ \A i \in DOMAIN udpFrames : udpFrames[i].frameNumber = i
    /\ lastGetFailed => udpSent = <<>>
    /\ lastGetOk =>
          /\ udpSent # <<>>
          /\ \A i \in DOMAIN udpSent :
                udpSent[i].frameNumber = udpFrames[Len(udpFrames)].frameNumber
    /\ frameCounter = Len(udpFrames)

\* a capture has failed after two frames were sent
C3_WitnessFailure == Len(udpFrames) = 2 /\ lastGetFailed

\* the third frame has been sent in three datagrams
C3_Witness == Len(udpFrames) = 3 /\ Len(udpSent) = 3 /\ udpSent[3].frameNumber = 3

----------------------------------------------------------------------------
(* Properties of the RTSP adapter *)

\* sequence numbers of the session's RTP packets up to now: the last one before
\* the last step, then those of the last step
rtpSeqs ==
    (IF rtpPrev = NoPacket THEN <<>> ELSE <<rtpPrev.seq>>)
    \o [i \in DOMAIN rtpSent |-> rtpSent[i].seq]

\* C4 as stated: each RTP packet's sequence number is the previous packet's plus
\* 1 modulo 65536, whatever requests were handled in between
C4_SequencePlusOne ==
    \A i \in 1..(Len(rtpSeqs) - 1) : rtpSeqs[i + 1] = (rtpSeqs[i] + 1) % 65536

\* C5 as stated: the packets of one frame carry one timestamp, 3000 more than
\* that of the frame before
C5_TimestampPerFrame ==
    rtpSent # <<>> =>
       /\ \A i \in DOMAIN rtpSent : rtpSent[i].ts = rtpSent[1].ts
       /\ rtpPrev # NoPacket => rtpSent[1].ts = rtpPrev.ts + 3000

S_CRLFCRLF == <<13, 10, 13, 10>>
S_ContentLengthName == <<67, 111, 110, 116, 101, 110, 116, 45, 76, 101, 110, 103, 116,
                         104, 58>>

\* the body that follows the blank line found at position sep of a response
BodyAt(text, sep) == Substring(text, sep + 4)

\* the number that follows the header name found at position at of a response
NumberAt(text, at) == ToInt(Substring(text, at + Len(S_ContentLengthName)))

\* C8: every DESCRIBE response has a Content-Length header before its blank line
\* whose value is the byte length of the body after the blank line
C8_DescribeContentLength ==
    \A i \in DOMAIN rtspResp :
       rtspResp[i].verb = "DESCRIBE" =>
          \A sep \in {IndexOf(rtspResp[i].text, S_CRLFCRLF)} :
          \A at \in {IndexOf(rtspResp[i].text, S_ContentLengthName)} :
             /\ sep >= 0 /\ at >= 0 /\ at < sep
             /\ \A body \in {BodyAt(rtspResp[i].text, sep)} :
                   /\ body # <<>>
                   /\ NumberAt(rtspResp[i].text, at) = Len(body)

\* a DESCRIBE has been answered by the adapter with the longest session id and
\* address, echoing a five-digit CSeq
C8_Witness ==
    /\ sessionId = 999999 /\ Len(localIP) = 15 /\ sequenceNumber = 65535
    /\ \E i \in DOMAIN rtspResp :
          /\ rtspResp[i].verb = "DESCRIBE"
          /\ Len(BodyAt(rtspResp[i].text, IndexOf(rtspResp[i].text, S_CRLFCRLF))) = 133

----------------------------------------------------------------------------
(* Properties of the pumped video adapters *)

\* C9: in the UDP, RTSP and WebSocket-signaling pump steps a frame obtained from
\* esp_camera_fb_get is returned exactly once before the step ends, on every
\* path, and a failed get is followed by no return
C9_PumpReturnsFrame ==
    /\ held = {}
    /\ \A id \in DOMAIN retCount : retCount[id] = (IF id <= nextFrame THEN 1 ELSE 0)
    /\ Len(camTrace) <= 2
    /\ camTrace # <<>> =>
          /\ camTrace[1].op = "get"
          /\ camTrace[1].id = 0 => Len(camTrace) = 1
          /\ camTrace[1].id # 0 =>
                /\ Len(camTrace) = 2
                /\ camTrace[2] = [camTrace[1] EXCEPT !.op = "return"]

\* the signaling pump has captured a frame it does not send (the state is
\* SIGNALING) and has returned it
C9_Witness ==
    /\ videoProtocol = "WebRTC" /\ webrtcState = "SIGNALING"
    /\ Len(camTrace) = 2 /\ camTrace[2].op = "return"
    /\ \A i \in DOMAIN wsOut : wsOut[i].kind # "BIN"

----------------------------------------------------------------------------
(* Properties of the control decoders *)

\* C6 as stated: after any sequence of control updates through the HTTP, UDP or
\* WebSocket decoder, pan, tilt and zoom are in [-100,100] and brightness is in
\* [0,100]
C6_ControlInRange ==
    /\ currentControl.pan \in -100..100
    /\ currentControl.tilt \in -100..100
    /\ currentControl.zoom \in -100..100
    /\ currentControl.brightness \in 0..100

----------------------------------------------------------------------------
(* Properties of frame ownership *)

Max(a, b) == IF a > b THEN a ELSE b

\* change of the number of outstanding frames by one camera call
CamDelta(call) ==
    IF call.op = "get" THEN (IF call.id = 0 THEN 0 ELSE 1) ELSE -1

RECURSIVE CamNet(_)
CamNet(trace) == IF trace = <<>> THEN 0 ELSE CamDelta(Head(trace)) + CamNet(Tail(trace))

\* the largest number of outstanding frames while the calls of trace are made,
\* n frames being outstanding before them
RECURSIVE PeakHeld(_, _)
PeakHeld(n, trace) ==
    IF trace = <<>> THEN n
    ELSE Max(n, PeakHeld(n + CamDelta(Head(trace)), Tail(trace)))

\* C11: at every moment, between steps and between the camera calls within a
\* step, at most one frame is acquired and not yet released, also when the
\* chunk callback serves several clients in any interleaving
C11_AtMostOneOutstanding ==
    /\ Cardinality(held) <= 1
    /\ PeakHeld(Cardinality(held) - CamNet(camTrace), camTrace) <= 1

\* the callback has served two connected clients in turn while one frame, partly
\* sent, is checked out
C11_Witness ==
    /\ httpConn = {1, 2} /\ httpGot = {1, 2} /\ httpTo = 2
    /\ Cardinality(held) = 1 /\ fb # NoFrame /\ offset > 0

----------------------------------------------------------------------------
(* Phases of the chunked HTTP callback *)

\* the phase the statics encode between two calls
Phase(f, nh) ==
    IF f = NoFrame THEN "AwaitingFrame"
    ELSE IF nh THEN "SendingHeader" ELSE "SendingBody"

\* the phases one call can lead to
PhasesAfter(p, acquired) ==
    IF p = "AwaitingFrame"
    THEN (IF acquired THEN {"SendingHeader", "SendingBody"} ELSE {"AwaitingFrame"})
    ELSE IF p = "SendingHeader" THEN {"SendingHeader", "SendingBody"}
    ELSE {"SendingBody", "AwaitingFrame"}

\* C12: the callback moves only AwaitingFrame -> SendingHeader -> SendingBody ->
\* AwaitingFrame; a call emits the next bytes of the current frame's header
\* followed by its body, never a body byte while part of the header is to come,
\* and a frame is acquired (so a next header begun) only when the frame before
\* has been emitted in full and released
C12_HeaderThenBody ==
    [][LET acquired == camTrace' # <<>> /\ camTrace'[1].op = "get" /\ camTrace'[1].id # 0
           before   == IF acquired THEN 0 ELSE Len(httpSent)
           stream   == ExpectedStream(httpFrame')
           hdrLen   == Len(ExpectedHeader(httpFrame'.len))
       IN /\ Phase(fb', needHeader') \in PhasesAfter(Phase(fb, needHeader), acquired)
          /\ httpFrame' # httpFrame => NeedsFrame(fb)
          /\ httpFrame' # NoFrame =>
                /\ before + Len(httpRet') <= Len(stream)
                /\ httpRet' = SubSeq(stream, before + 1, before + Len(httpRet'))
                /\ httpSent' = SubSeq(stream, 1, before + Len(httpRet'))
                /\ before < hdrLen => before + Len(httpRet') <= hdrLen
                /\ Phase(fb', needHeader') = "SendingHeader" => Len(httpSent') < hdrLen
                /\ Phase(fb', needHeader') = "SendingBody" =>
                      Len(httpSent') >= hdrLen /\ Len(httpSent') < Len(stream)
          /\ (acquired /\ httpFrame # NoFrame) =>
                /\ httpSent = ExpectedStream(httpFrame)
                /\ retCount[httpFrame.id] = 1 /\ held = {}
      ]_vars

\* the header of the second frame is partly sent, after the first frame was
\* sent to its end and released
C12_Witness ==
    /\ httpFrame.id = 2 /\ Phase(fb, needHeader) = "SendingHeader"
    /\ headerSent > 0 /\ retCount[1] = 1 /\ held = {2}

----------------------------------------------------------------------------
(* Properties of RTSP request handling *)

\* the integer in the CSeq field of a response
CSeqOf(text) == ToInt(Substring(text, IndexOf(text, S_CSeqHdr) + Len(S_CSeqHdr)))

\* C13 as stated: the integer of the CSeq header read from a request is the
\* value in the CSeq field of the next response the adapter sends, whatever the
\* adapter did in between
C13_CSeqEchoed ==
    [][(rtspResp' # <<>> /\ cseqRead # -1) => CSeqOf(rtspResp'[1].text) = cseqRead]_vars

\* C14: a pump step that answers TEARDOWN leaves the client closed and not
\* connected; a pump step that ends without a connected client has written no RTP
\* packet and made no camera call; and the adapter only becomes connected by
\* accepting a waiting client
HasVerb(resps, verb) == \E i \in 1..Len(resps) : resps[i].verb = verb
C14_TeardownStopsStream ==
    [][/\ HasVerb(rtspResp', "TEARDOWN") =>
              ~clientConnected' /\ rtspSock' = "stopped" /\ rtspRx' = <<>>
       /\ ~clientConnected' => rtpSent' = <<>> /\ camTrace' = <<>>
       /\ (~clientConnected /\ clientConnected') => rtspPending /\ ~rtspPending']_vars

\* a TEARDOWN was just answered for a client that had been sent a frame
C14_Witness ==
    /\ HasVerb(rtspResp, "TEARDOWN") /\ ~clientConnected
    /\ nextFrame > 1 /\ rtpSent = <<>> /\ camTrace = <<>>

----------------------------------------------------------------------------
(* Properties of the signaling adapter *)

IsOffer(ev) == ev.t = "TEXT" /\ ev.msg.ok /\ ev.msg.type = "offer"
IsDisconnect(ev) == ev.t = "DISCONNECTED"

\* the clients that sent the offers among the events, in order
Offerers(evs) == SelectSeq(evs, IsOffer)
IsAnswer(m) == m.kind = "TXT" /\ m.type = "answer"
Answers(out) == SelectSeq(out, IsAnswer)

\* C15: every offer delivered in a pump step is answered by one "answer" message
\* to its sender, in order; if the last delivered event is an offer from n, the
\* step ends in SIGNALING with n the current client, whatever the state was; a
\* step that delivers only other messages, unparsable messages or connects leaves
\* the state and the current client as they were and sends no answer
C15_OfferAnswered ==
    [][\A evs \in {wsEvents'} :
         /\ Len(Answers(wsOut')) = Len(Offerers(evs))
         /\ \A i \in 1..Len(Offerers(evs)) : Answers(wsOut')[i].to = Offerers(evs)[i].num
         /\ (evs # <<>> /\ IsOffer(evs[Len(evs)])) =>
                webrtcState' = "SIGNALING" /\ currentClient' = evs[Len(evs)].num
         /\ (\A i \in 1..Len(evs) : ~IsOffer(evs[i]) /\ ~IsDisconnect(evs[i])) =>
                webrtcState' = webrtcState /\ currentClient' = currentClient]_vars

\* client 1 takes over with an offer after frames were captured for an earlier
\* offer, client 0 still being connected
C15_Witness ==
    /\ wsEvents # <<>> /\ IsOffer(wsEvents[Len(wsEvents)]) /\ wsEvents[Len(wsEvents)].num = 1
    /\ webrtcState = "SIGNALING" /\ currentClient = 1 /\ wsClients = {0, 1}
    /\ Len(Answers(wsOut)) = 1 /\ nextFrame > 2

IsFrameMsg(m) == m.kind = "BIN"

\* C16: after a pump step that captured a frame while the state was not
\* DISCONNECTED and a client was connected, one binary message to the current
\* client has been sent
C16_FramePushedWhenNotDisconnected ==
    (lastGetOk /\ videoProtocol = "WebRTC" /\ webrtcState # "DISCONNECTED"
       /\ wsClients # {}) =>
       /\ Len(SelectSeq(wsOut, IsFrameMsg)) = 1
       /\ \A i \in 1..Len(wsOut) : IsFrameMsg(wsOut[i]) => wsOut[i].to = currentClient

\* state and current client after an event, as the signaling rules give them
SignalingAfter(s, ev) ==
    IF IsOffer(ev) THEN [state |-> "SIGNALING", cur |-> ev.num]
    ELSE IF IsDisconnect(ev) /\ ev.num = s.cur THEN [state |-> "DISCONNECTED", cur |-> 0]
    ELSE s

RECURSIVE SignalingAfterAll(_, _)
SignalingAfterAll(s, evs) ==
    IF evs = <<>> THEN s ELSE SignalingAfterAll(SignalingAfter(s, Head(evs)), Tail(evs))

\* C17: a disconnect event of the current client leaves DISCONNECTED and current
\* client 0, a disconnect event of another client changes neither; while the
\* state is DISCONNECTED a pump step makes no camera call and sends no binary
\* message, and the state leaves DISCONNECTED only in a step that delivers an offer
C17_DisconnectStopsStream ==
    [][/\ \A after \in {SignalingAfterAll([state |-> webrtcState, cur |-> currentClient],
                                          wsEvents')} :
             webrtcState' = after.state /\ currentClient' = after.cur
       /\ webrtcState' = "DISCONNECTED" =>
             camTrace' = <<>> /\ SelectSeq(wsOut', IsFrameMsg) = <<>>
       /\ (webrtcState = "DISCONNECTED" /\ webrtcState' # "DISCONNECTED") =>
             \E i \in 1..Len(wsEvents') : IsOffer(wsEvents'[i])]_vars

\* client 1 has just disconnected, frames had been captured after an offer, and
\* the adapter is DISCONNECTED with client 0 still connected
C17_Witness ==
    /\ wsEvents # <<>> /\ wsEvents[Len(wsEvents)] = WsDisconnected(1)
    /\ webrtcState = "DISCONNECTED" /\ currentClient = 0 /\ wsClients = {0}
    /\ nextFrame > 1 /\ camTrace = <<>> /\ wsOut = <<>>

----------------------------------------------------------------------------
(* Properties of the execution contexts *)

\* C18: the camera calls of a step (acquire, release) are made by the video
\* context, the task or loop that runs the video pump step
C18_CameraOnlyInVideoContext == camTrace # <<>> => ctx = "video"

\* C19: the shared control state changes only in steps of the control context,
\* the one in which the actuator step reads it
C19_ControlStateOneContext ==
    [][currentControl' # currentControl => ctx' = "control"]_vars

----------------------------------------------------------------------------
(* Properties of the chunked HTTP adapter across clients *)

\* C20: when the only connected client receives the first bytes of its stream,
\* they are the first bytes emitted of the frame being sent and the start of that
\* frame's header, whatever an earlier client left behind when it disconnected
C20_NextStreamStartsFresh ==
    [][\A c \in httpGot' \ httpGot :
          httpConn = {c} =>
             /\ httpFrame' # NoFrame
             /\ httpSent' = httpRet'
             /\ httpRet' = SubSeq(ExpectedHeader(httpFrame'.len), 1, Len(httpRet'))]_vars

\* C28: a call made without a frame in hand whose acquire fails returns no bytes,
\* counts the failure (the counter goes up by one, and back to 0 when that takes
\* it past the limit), and leaves the callback without a frame and the camera
\* with none checked out; the call after a failed one starts by acquiring
C28_FailedAcquire ==
    [][/\ (fb = NoFrame /\ camTrace' = <<CamGet(NoFrame)>>) =>
             /\ httpRet' = <<>>
             /\ failCount' = (IF failCount + 1 > FailLimit THEN 0 ELSE failCount + 1)
             /\ fb' = NoFrame /\ held' = {} /\ nextFrame' = nextFrame
       /\ lastGetFailed => camTrace' # <<>> /\ camTrace'[1].op = "get"]_vars

\* the third failure in a row after a frame went through, counted and not yet
\* answered by a cooldown
C28_Witness ==
    /\ lastGetFailed /\ failCount = 3 /\ fb = NoFrame /\ httpRet = <<>>
    /\ nextFrame = 1 /\ retCount[1] = 1 /\ held = {}

\* C24: while the client that received the last bytes of the frame being sent is
\* still connected, the next bytes of that frame go to the same client
C24_FrameNotDivided ==
    [][(fb # NoFrame /\ httpRet # <<>> /\ httpTo \in httpGot
          /\ httpRet' # <<>> /\ httpSent' # httpSent) =>
          httpTo' = httpTo]_vars

\* C29: a /video handler run reads only through a pointer to a frame that is
\* checked out at that time
C29_NoReadAfterRelease == ~fwRead.released

----------------------------------------------------------------------------
(* Properties of the task loops *)

\* the pump steps of videoTask for one outcome of what they read
UdpStepWith(got) ==
    /\ HandleVideoUDP(got)
    /\ ctx' = "video"
    /\ UNCHANGED <<videoProtocol, httpVars, rtspVars, wsVars, ctrlVars, fwVars, bootVars>>
RtspStepWith(st1, st2, got) ==
    /\ RtspCommit(st1, st2, got)
    /\ ctx' = "video"
    /\ UNCHANGED <<videoProtocol, httpVars, udpVars, wsVars, ctrlVars, fwVars, bootVars>>
WsStepWith(evs, st1, st2, got) ==
    /\ WsCommit(evs, st1, st2, got)
    /\ ctx' = "video"
    /\ UNCHANGED <<videoProtocol, httpVars, udpVars, rtspVars, ctrlVars, fwVars, bootVars>>

\* C21: in every state, for every outcome of the capture (a frame or a failure)
\* and of what the network delivers (a client or none, any request, any event),
\* the pump step of the build completes and leaves a state in which the next
\* iteration can run; after a failed capture the next iteration can capture
C21_PumpAlwaysReturns ==
    /\ videoProtocol = "UDP" =>
          \A got \in Acquirable(FrameLens, MaxFrames) : ENABLED UdpStepWith(got)
    /\ videoProtocol = "RTSP" =>
          \A got \in (IF Handle(RtspState).conn
                      THEN Acquirable(RtspFrameLens, MaxRtspFrames) ELSE {NoFrame}) :
             \E st1 \in {Handle(RtspState)} :
             \E st2 \in {IF st1.conn /\ got # NoFrame THEN SendFrame(st1, got) ELSE st1} :
                ENABLED RtspStepWith(st1, st2, got)
    /\ videoProtocol = "WebRTC" =>
          \A evs \in WsEventSeqs(wsClients, 1) :
          \E st1 \in {WsLoop(WsState, evs)} :
             \A got \in (IF st1.state # "DISCONNECTED"
                         THEN Acquirable(WsFrameLens, MaxFrames) ELSE {NoFrame}) :
             \E st2 \in {IF st1.state # "DISCONNECTED"
                         THEN SendWebRTCFrame(st1, got) ELSE st1} :
                ENABLED WsStepWith(evs, st1, st2, got)

\* a capture has just failed in a pump step and an earlier frame went through
C21_Witness == lastGetFailed /\ ctx = "video" /\ nextFrame > 0 /\ held = {}

\* how many of the delays in sleeps are d
DelaysOf(sleeps, d) == Cardinality({i \in DOMAIN sleeps : sleeps[i] = d})

\* C22: the iteration of the video task that has just run waited the frame
\* interval exactly once, whether its capture succeeded, failed or was not tried
C22_FullIntervalEveryIteration ==
    ctx = "video" => DelaysOf(slept, DelayMs(FRAME_INTERVAL_MS)) = 1

\* C25: the RTP packets of a pump step that captured a frame of L bytes are
\* ceil(L/1400) in number, each with a 12-byte header and at most 1400 payload
\* bytes, the payloads being consecutive ranges of the frame that start at byte 0
\* and end at byte L; and sendFrame applied without a connected client, in any
\* state and for any frame, writes nothing and leaves sequence number and
\* timestamp as they are
C25_RtpFragmentation ==
    /\ (videoProtocol = "RTSP" /\ lastGetOk) =>
          \A L \in {camTrace[1].len} : \A n \in {CeilDiv(L, 1400)} :
             /\ Len(rtpSent) = n
             /\ \A i \in 1..n :
                   /\ rtpSent[i].hdr = 12
                   /\ rtpSent[i].len >= 1 /\ rtpSent[i].len <= 1400
                   /\ rtpSent[i].from = (IF i = 1 THEN 0
                                         ELSE rtpSent[i - 1].from + rtpSent[i - 1].len)
             /\ rtpSent[n].from + rtpSent[n].len = L
    /\ videoProtocol = "RTSP" =>
          \A idle \in {[RtspState EXCEPT !.conn = FALSE]} :
          \A f \in {[id |-> 1, len |-> L] : L \in RtspFrameLens} :
             \A after \in {SendFrame(idle, f)} :
                after.rtp = <<>> /\ after.seq = idle.seq /\ after.ts = idle.ts

\* a frame of 1401 bytes left in two packets, of 1400 bytes and of 1 byte
C25_Witness ==
    /\ videoProtocol = "RTSP" /\ lastGetOk /\ camTrace[1].len = 1401
    /\ Len(rtpSent) = 2 /\ rtpSent[2].len = 1 /\ clientConnected

----------------------------------------------------------------------------
(* Properties of RTSP sessions *)

\* the pump step reads the line at the head of the receive buffer as a request
ReadsRequest == clientConnected /\ rtspSock = "open" /\ rtspRx # <<>>
                /\ Len(rtspRx') < Len(rtspRx)

\* C26: once the peer has closed the connection, the adapter's connected flag
\* becomes false at some later time
C26_PeerCloseEndsSession == (rtspSock = "closed") ~> ~clientConnected

\* C27: the RTP stream of a newly accepted client starts from the initial values:
\* after the pump step that accepts it, the first packet sent carries sequence
\* number 0 and timestamp 0, or, no packet having been sent, the two counters are 0
C27_NewSessionStartsFresh ==
    [][(~clientConnected /\ clientConnected') =>
          IF rtpSent' # <<>>
          THEN rtpSent'[1].seq = 0 /\ rtpSent'[1].ts = 0
          ELSE sequenceNumber' = 0 /\ timestamp' = 0]_vars

\* C23: a pump step that reads a PAUSE request line (none of the five verbs)
\* writes a response and keeps the client connected
C23_UnsupportedRequestAnswered ==
    [][(ReadsRequest /\ IndexOf(Head(rtspRx), S_PAUSE) >= 0) =>
          rtspResp' # <<>> /\ clientConnected']_vars

\* C30: the iteration of the video task or the control task that has just run
\* ended with the one-tick yield, and yielded so exactly once, whatever its pump
\* step did
C30_YieldEveryIteration ==
    ctx \in {"video", "control"} =>
       /\ slept # <<>> /\ slept[Len(slept)] = DelayTicks(1)
       /\ DelaysOf(slept, DelayTicks(1)) = 1

\* a video iteration whose capture failed has ended with the yield alone
C30_Witness ==
    lastGetFailed /\ ctx = "video" /\ slept = <<DelayTicks(1)>> /\ nextFrame > 0

----------------------------------------------------------------------------
(* Properties of the signaling adapter's current client *)

FramesIn(out) == {i \in DOMAIN out : out[i].kind = "BIN"}

\* C32: the signaling adapter has one current client, the sender of the offer
\* handled last: an offer of another client replaces it, the disconnect of a
\* client that is not current changes neither the state nor the current client,
\* and a captured frame goes to no client but the current one, once
C32_OneCurrentClient ==
    [][(videoProtocol = "WebRTC" /\ ctx' = "video") =>
         LET evs == wsEvents' IN
         /\ \A i \in DOMAIN evs :
               (/\ IsOffer(evs[i])
                /\ \A j \in DOMAIN evs :
                      j > i => ~IsOffer(evs[j]) /\ evs[j] # WsDisconnected(evs[i].num))
               => currentClient' = evs[i].num /\ webrtcState' = "SIGNALING"
         /\ (\A i \in DOMAIN evs :
               /\ ~IsOffer(evs[i])
               /\ ~(evs[i].t = "DISCONNECTED" /\ evs[i].num = currentClient))
               => webrtcState' = webrtcState /\ currentClient' = currentClient
         /\ Cardinality(FramesIn(wsOut')) <= 1
         /\ \A i \in FramesIn(wsOut') : wsOut'[i].to = currentClient'
         /\ \A f \in {[id |-> 1, len |-> L] : L \in WsFrameLens} :
               LET out == SendWebRTCFrame([WsState EXCEPT !.state = "CONNECTED"], f).out IN
               /\ Cardinality(FramesIn(out)) <= 1
               /\ \A i \in FramesIn(out) : out[i].to = currentClient
    ]_vars

\* client 1 has made an offer and is current; client 0 has just disconnected
C32_Witness ==
    /\ videoProtocol = "WebRTC" /\ ctx = "video"
    /\ wsEvents = <<WsDisconnected(0)>>
    /\ currentClient = 1 /\ webrtcState = "SIGNALING" /\ wsClients = {1}

\* C33: in src/video_webrtc.h an offer handled while Disconnected is answered with
\* a stub answer to its sender and moves the state to Signaling, not to Connected
C33_OfferMovesToSignaling ==
    [][(/\ videoProtocol = "WebRTC_src"
        /\ webrtcState = "DISCONNECTED"
        /\ Len(wsEvents') = 1 /\ IsOffer(wsEvents'[1]))
       => /\ webrtcState' = "SIGNALING"
          /\ \E i \in DOMAIN wsOut' :
                wsOut'[i] = [to |-> wsEvents'[1].num, kind |-> "TXT", type |-> "answer"]
    ]_vars

----------------------------------------------------------------------------
(* Frame effect of one control message *)

\* what handling the decoded message doc must leave behind: the fields under its
\* keys hold its values and the others their old ones; after a parse error no
\* field has changed and nothing was sent back
DecodedAs(doc) ==
    /\ doc.ok =>
          \A k \in CtrlKeys :
             currentControl'[k] = IF k \notin doc.keys THEN currentControl[k]
                                  ELSE IF k = "led" THEN doc.led ELSE doc.num[k]
    /\ ~doc.ok => currentControl' = currentControl /\ ctrlAcks' = <<>>

\* C34: for each control decoder (HTTP, UDP, WebSocket), one message changes the
\* fields of currentControl whose keys the parsed object holds and no other, and
\* a message that does not parse changes no field and is not acknowledged
C34_MessageChangesItsKeys ==
    [][\A doc \in CtrlDocs :
         (\/ ctrlProto = "HTTP" /\ ctx' = "async_tcp" /\ ControlPost(doc)
          \/ ctrlProto = "UDP" /\ ProcessControlPacket(TRUE, doc)
          \/ ctrlProto = "WebSocket" /\ WebSocketEvent("TEXT", doc))
         => DecodedAs(doc)
    ]_vars

----------------------------------------------------------------------------
(* Request framing of the RTSP adapter *)

SupportedVerbs == {S_OPTIONS, S_DESCRIBE, S_SETUP, S_PLAY, S_TEARDOWN}

\* the line opens a request with a supported verb
IsRequestLine(line) == \E verb \in SupportedVerbs : IsPrefix(verb \o <<32>>, line)

\* the request lines among the lines the step took out of the receive buffer
RequestLinesRead ==
    {i \in 1..(Len(rtspRx) - Len(rtspRx')) : IsRequestLine(rtspRx[i])}

\* C35: whatever the timing of arrival, the adapter answers every request of a
\* connected client once: a pump step of a session that goes on sends as many
\* responses as it reads request lines, so no request line is swallowed as a
\* header line and no header or blank line is answered as a request
C35_OneResponsePerRequest ==
    [][(/\ videoProtocol = "RTSP" /\ ctx' = "video"
        /\ clientConnected /\ clientConnected' /\ rtspSock = "open")
       => Len(rtspResp') = Cardinality(RequestLinesRead)]_vars

----------------------------------------------------------------------------
(* Bounds of the chunked HTTP callback *)

\* C36: while the callback holds a frame its body offset is at most the frame
\* length and the header bytes sent are at most the header length, which is
\* below the size of headerBuf; and no call returns (or writes into the buffer)
\* more than maxLen bytes, for maxLen = 0 and for an empty frame too
C36_CallbackBounds ==
    /\ fb # NoFrame =>
          /\ offset <= fb.len
          /\ headerSent <= headerLen
          /\ headerLen < HeaderBufSize
    /\ Len(httpRet) <= httpMaxLen

\* an empty frame is held, one byte of its header is out, and the last call was
\* offered an empty buffer
C36_Witness ==
    /\ fb # NoFrame /\ fb.len = 0 /\ offset = 0
    /\ headerSent = 1 /\ httpMaxLen = 0 /\ httpRet = <<>>

====
